---- MODULE Spec2Model ----
(***************************************************************************)
(* Verification model of the EdgePrompt research runner.                   *)
(*                                                                         *)
(*   - EvaluationEngine.validate_result (multi-stage validation) and the   *)
(*     post-parse checks of EvaluationEngine._parse_json_from_llm_output   *)
(*     (src/research/runner/evaluation_engine.py), specification           *)
(*     SpecValidate, and with the metrics of its stages and the shared     *)
(*     collector, specification SpecValidateMetrics;                       *)
(*   - RunnerCore.run_test_suite and the four run methods                  *)
(*     (src/research/runner/runner_core.py), specification SpecSuite;      *)
(*   - both entry points together, specification SpecProgram;              *)
(*   - EvaluationEngine._parse_json_from_llm_output on raw texts,          *)
(*     specification SpecParse;                                            *)
(*   - ConstraintEnforcer.enforce_constraints                              *)
(*     (src/research/runner/constraint_enforcer.py), specification         *)
(*     SpecConstraints;                                                    *)
(*   - MetricsCollector (src/research/runner/metrics_collector.py):        *)
(*     merge_metrics, specification SpecMerge, and the timer and token     *)
(*     methods of one collector, specification SpecCollector;              *)
(*   - LMStudioRunner.execute and OllamaRunner.execute                     *)
(*     (src/research/runner/edge_runners.py) on the shared collector,      *)
(*     specification SpecRunner.                                           *)
(*                                                                         *)
(* Numbers: a judgment score and a scoringImpact are kept in tenths        *)
(* (1.0 is 10, 0.6 is 6), a finalScore in hundredths (0.8 is 80).          *)
(***************************************************************************)
EXTENDS Integers, Sequences, FiniteSets, TLC

VARIABLES
    \* ---- EvaluationEngine.validate_result ----
    validation_sequence,   \* argument: the stages as declared
    vr_pc,                 \* "idle" | "loop" | "returned" | "raised"; "absent"
                           \* when validate_result is not called
    sorted_stages,         \* local sorted_stages
    stage_index,           \* position of the for loop in sorted_stages
    validation_result,     \* local validation_result (returned at the end)
    vr_returned,           \* the value returned to the caller, NoResult before
    rendered,              \* ids of the stages handed to process_template
    executed,              \* ids of the stages handed to edge_llm_execute_func
    vr_failure,            \* the infrastructure failure met so far, "none" if none
    all_stage_metrics,     \* local all_stage_metrics
    llm_s_metrics          \* the metrics dictionaries edge_llm_execute_func
                           \* attaches to its results

vrVars == <<validation_sequence, vr_pc, sorted_stages, stage_index,
            validation_result, vr_returned, rendered, executed, vr_failure,
            all_stage_metrics, llm_s_metrics>>

VARIABLES
    \* ---- RunnerCore.run_test_suite ----
    suite_cfg,             \* the loaded test suite (shape and run parameters)
    rs_pc,                 \* position in run_test_suite
    tci, hpi, emi,         \* indices of the three nested for loops
    run_counter,           \* local run_counter
    shared_teacher_request,\* per test case: test_case["shared_teacher_request"]
    context_events,        \* per test case: teacher requests made, contexts written
    run_data,              \* local run_data of the combination in progress
    test_suite_results,    \* local test_suite_results
    logged,                \* the records handed to result_logger.log_result
    suite_result,          \* the value run_test_suite returned
    teacher_failed,        \* test cases whose teacher request reported an error
    \* ---- the run method in progress (_run_cloud_baseline, ...) ----
    next_run,              \* the run the suite is about to call (1..4)
    cur_run,               \* 0, or the run method being executed
    r_pc,                  \* position in the run method
    run_results,           \* local run_results
    run_faults,            \* how steps of this run failed: "reported", "raised"
    run_calls,             \* the steps this run called a model for, with the
                           \* metrics the call produced
    run_starts,            \* the runs started in this combination, in order
    active_runs,           \* run methods entered and not yet returned
    calls_in_flight        \* model-execution calls issued and not yet answered

suiteVars == <<suite_cfg, rs_pc, tci, hpi, emi, run_counter,
               shared_teacher_request, context_events, run_data, test_suite_results, logged,
               suite_result, teacher_failed>>

runVars == <<next_run, cur_run, r_pc, run_results, run_faults, run_calls,
             run_starts, active_runs, calls_in_flight>>

VARIABLES
    \* ---- EvaluationEngine._parse_json_from_llm_output ----
    raw_text,              \* argument text: the raw output of a model
    parse_pc,              \* "idle" | "returned" | "raised"; "absent" when the
                           \* function is not called on its own
    parse_returned         \* the dictionary returned, NoJudgment before

parseVars == <<raw_text, parse_pc, parse_returned>>

VARIABLES
    \* ---- ConstraintEnforcer.enforce_constraints ----
    ce_content,            \* argument content
    constraints,           \* argument constraints
    ce_pc,                 \* "idle" | "returned"; "absent" when the function
                           \* is not called on its own
    enforcement_result     \* the dictionary returned, NewEnforcement before

ceVars == <<ce_content, constraints, ce_pc, enforcement_result>>

VARIABLES
    \* ---- MetricsCollector.merge_metrics ----
    merge_list,            \* argument metrics_list
    merge_pc,              \* "idle" | "returned"; "absent" when the function
                           \* is not called on its own
    merged                 \* the dictionary returned, NoMetrics before

mergeVars == <<merge_list, merge_pc, merged>>

VARIABLES
    \* ---- one MetricsCollector and the clock it reads ----
    now,                   \* time.time(), in milliseconds
    start_time,            \* self.start_time, NoTime for None
    metrics_data,          \* self.metrics_data
    timer_started,         \* start_timer was called since __init__ or reset
    mc_last                \* the last call: its name, what it returned and
                           \* whether it raised

mcVars == <<now, start_time, metrics_data, timer_started, mc_last>>

VARIABLES
    \* ---- LMStudioRunner.execute on the shared MetricsCollector ----
    exec_pc,               \* "idle" | "requesting"; "absent" when no runner
                           \* is used
    exec_calls,            \* the number of execute calls that returned
    exec_result            \* what the last execute call returned

execVars == <<exec_pc, exec_calls, exec_result>>

\* the state of the components called on their own
toolVars == <<parseVars, ceVars, mergeVars, mcVars, execVars>>

vars == <<vrVars, suiteVars, runVars, toolVars>>

----------------------------------------------------------------------------
(* Bounds *)

MaxStages == 3

\* a suite has at most MaxCombos (test case, hardware profile, edge model)
\* combinations
MaxCombos == 3

----------------------------------------------------------------------------
(* Stages of a validation sequence.  A stage is a dictionary: keys is the  *)
(* set of keys it has, the other fields give the value of a present key.   *)

StageConfigs ==
    { [keys |-> {"priority", "scoringImpact", "template"},
       priority |-> 1, scoringImpact |-> 6, abortOnFailure |-> TRUE],
      [keys |-> {"priority", "scoringImpact", "abortOnFailure", "template"},
       priority |-> 5, scoringImpact |-> 4, abortOnFailure |-> TRUE],
      [keys |-> {"abortOnFailure", "template"},
       priority |-> 0, scoringImpact |-> 0, abortOnFailure |-> FALSE],
      [keys |-> {"priority", "scoringImpact", "abortOnFailure", "template"},
       priority |-> -1, scoringImpact |-> -2, abortOnFailure |-> FALSE],
      [keys |-> {"priority", "scoringImpact", "template"},
       priority |-> 10, scoringImpact |-> 4, abortOnFailure |-> TRUE],
      [keys |-> {"priority", "scoringImpact"},
       priority |-> 5, scoringImpact |-> 6, abortOnFailure |-> TRUE] }

\* The sequences validate_result may be called with: stage i of the
\* declaration carries id i.
WithIds(cfgs) ==
    [i \in 1..Len(cfgs) |->
        [id |-> i, keys |-> cfgs[i].keys, priority |-> cfgs[i].priority,
         scoringImpact |-> cfgs[i].scoringImpact,
         abortOnFailure |-> cfgs[i].abortOnFailure]]

ValidationSequences ==
    { WithIds(cfgs) : cfgs \in UNION { [1..n -> StageConfigs] : n \in 0..MaxStages } }

\* stage.get("priority", 0)
StagePriority(stage) ==
    IF "priority" \in stage.keys THEN stage.priority ELSE 0

\* stage.get("scoringImpact", 0.0)
StageScoringImpact(stage) ==
    IF "scoringImpact" \in stage.keys THEN stage.scoringImpact ELSE 0

\* stage.get("abortOnFailure", True)
StageAbortOnFailure(stage) ==
    IF "abortOnFailure" \in stage.keys THEN stage.abortOnFailure ELSE TRUE

\* stage.get("template") is truthy
StageHasTemplate(stage) == "template" \in stage.keys

----------------------------------------------------------------------------
(* sorted(validation_sequence, key=priority, reverse=True): descending by  *)
(* key, and elements with equal keys keep their original order.            *)

RemoveAt(s, i) == [j \in 1..(Len(s) - 1) |-> IF j < i THEN s[j] ELSE s[j + 1]]

MaxPriority(s) ==
    CHOOSE p \in { StagePriority(s[i]) : i \in 1..Len(s) } :
        \A i \in 1..Len(s) : StagePriority(s[i]) <= p

FirstWithPriority(s, p) ==
    CHOOSE i \in 1..Len(s) :
        /\ StagePriority(s[i]) = p
        /\ \A j \in 1..(i - 1) : StagePriority(s[j]) # p

LastWithPriority(s, p) ==
    CHOOSE i \in 1..Len(s) :
        /\ StagePriority(s[i]) = p
        /\ \A j \in (i + 1)..Len(s) : StagePriority(s[j]) # p

\* mutant: a descending sort that reverses the stages of equal priority
RECURSIVE SortedStagesUnstable(_)
SortedStagesUnstable(s) ==
    IF s = <<>> THEN <<>>
    ELSE LET i == LastWithPriority(s, MaxPriority(s))
         IN  <<s[i]>> \o SortedStagesUnstable(RemoveAt(s, i))

RECURSIVE SortedStagesRec(_)
SortedStagesRec(s) ==
    IF s = <<>> THEN <<>>
    ELSE LET i == FirstWithPriority(s, MaxPriority(s))
         IN  <<s[i]>> \o SortedStagesRec(RemoveAt(s, i))

SortedStages(s) == SortedStagesRec(s)

----------------------------------------------------------------------------
(* Raw model texts and _parse_json_from_llm_output.  A text is abstracted  *)
(* to its form and, when it holds a JSON object, that object.  A JSON      *)
(* value is [t, b, n, s]: its type tag and its boolean, numeric (tenths)   *)
(* or string payload.                                                      *)

JBool(b) == [t |-> "bool", b |-> b, n |-> 0, s |-> ""]
JNum(n)  == [t |-> "num", b |-> FALSE, n |-> n, s |-> ""]
JStr(s)  == [t |-> "str", b |-> FALSE, n |-> 0, s |-> s]
JNull    == [t |-> "null", b |-> FALSE, n |-> 0, s |-> ""]

JObject(keys, passed, valid, score, feedback) ==
    [keys |-> keys, passed |-> passed, valid |-> valid, score |-> score,
     feedback |-> feedback]

EmptyObject == JObject({}, JNull, JNull, JNull, JNull)

Texts ==
    { [form |-> "empty", obj |-> EmptyObject],
      [form |-> "prose", obj |-> EmptyObject],
      [form |-> "json",
       obj |-> JObject({"passed", "score", "feedback"},
                       JBool(TRUE), JNull, JNum(10), JStr(""))],
      [form |-> "json",
       obj |-> JObject({"passed", "score", "feedback"},
                       JBool(TRUE), JNull, JNum(5), JStr("ok"))],
      [form |-> "json",
       obj |-> JObject({"passed", "score", "feedback"},
                       JBool(FALSE), JNull, JNum(10), JStr("bad"))],
      [form |-> "json",
       obj |-> JObject({"valid", "score", "feedback"},
                       JNull, JBool(TRUE), JNum(80), JStr("good"))],
      [form |-> "json",
       obj |-> JObject({"passed", "feedback"},
                       JBool(TRUE), JNull, JNull, JStr("x"))],
      [form |-> "json",
       obj |-> JObject({"passed", "score", "feedback"},
                       JStr("yes"), JNull, JNum(10), JStr(""))] }

\* mutant: valid is copied to passed whenever valid is present
AliasValidAlways(obj) ==
    IF "valid" \in obj.keys
    THEN [obj EXCEPT !.keys = @ \cup {"passed"}, !.passed = obj.valid]
    ELSE obj

\* 'valid' in parsed_json and 'passed' not in parsed_json: copy valid to passed
AliasValid(obj) ==
    IF "valid" \in obj.keys /\ "passed" \notin obj.keys
    THEN [obj EXCEPT !.keys = @ \cup {"passed"}, !.passed = obj.valid]
    ELSE obj

MissingKeys(obj) == {"passed", "score", "feedback"} \ obj.keys

\* isinstance(x, bool); isinstance(x, (int, float)) also accepts a bool;
\* isinstance(x, str)
TypeErrors(obj) ==
    {k \in {"passed"} : obj.passed.t # "bool"}
    \cup {k \in {"score"} : obj.score.t \notin {"num", "bool"}}
    \cup {k \in {"feedback"} : obj.feedback.t # "str"}

\* float(parsed_json["score"])
FloatOf(v) == IF v.t = "bool" THEN (IF v.b THEN 10 ELSE 0) ELSE v.n

NoJudgment == [passed |-> FALSE, score |-> 0, feedback |-> ""]

\* mutant: a missing key is filled in with a default value
ParseJsonWithDefaults(text) ==
    IF text.form # "json"
    THEN [raised |-> TRUE, data |-> NoJudgment]
    ELSE LET obj == AliasValid(text.obj)
             dflt == [obj EXCEPT
                        !.passed = IF "passed" \in obj.keys THEN @ ELSE JBool(FALSE),
                        !.score = IF "score" \in obj.keys THEN @ ELSE JNum(0),
                        !.feedback = IF "feedback" \in obj.keys THEN @ ELSE JStr("")]
         IN  IF TypeErrors(dflt) # {}
             THEN [raised |-> TRUE, data |-> NoJudgment]
             ELSE [raised |-> FALSE,
                   data |-> [passed |-> dflt.passed.b,
                             score |-> FloatOf(dflt.score),
                             feedback |-> dflt.feedback.s]]

\* [raised, data]: raised when the function raises, else data is the
\* returned dictionary
ParseJsonFromLlmOutput(text) ==
    IF text.form # "json"
    THEN [raised |-> TRUE, data |-> NoJudgment]
    ELSE LET obj == AliasValid(text.obj)
         IN  IF MissingKeys(obj) # {} \/ TypeErrors(obj) # {}
             THEN [raised |-> TRUE, data |-> NoJudgment]
             ELSE [raised |-> FALSE,
                   data |-> [passed |-> obj.passed.b,
                             score |-> FloatOf(obj.score),
                             feedback |-> obj.feedback.s]]

----------------------------------------------------------------------------
(* Raw texts as a model writes them, and the extraction strategies of      *)
(* _parse_json_from_llm_output.  A raw text is described by its layout,    *)
(* the prose before and after the structured part and the three values it  *)
(* carries.  A bullet value is the text from the first non-blank character *)
(* after the colon to the end of the line: the spelling of the value       *)
(* followed by the tail (nothing, a blank, or the carriage return of a     *)
(* CRLF line ending).                                                      *)

Layouts == {"plain", "fence_json", "fence", "bullets"}

\* "words": prose without braces, fences or bullet lines;
\* "snippet": prose that quotes the expected format as ```{...}```
Proses == {"", "words", "snippet"}

Tails == {"", " ", "\r"}

Scores == {0, 8, 10, -5}

Feedbacks == {"Good work", "10"}

EmptyText ==
    [layout |-> "empty", before |-> "", after |-> "", tail |-> "",
     cap |-> FALSE, passed |-> FALSE, score |-> 0, feedback |-> "Good work"]

ProseText == [EmptyText EXCEPT !.layout = "prose", !.before = "words"]

\* JSON spells a boolean in lower case and ignores blanks around a value,
\* so cap and tail vary for bullet lines only.
StructuredTexts ==
    { raw \in [layout : Layouts, before : Proses, after : {"", "words"},
               tail : Tails, cap : BOOLEAN, passed : BOOLEAN,
               score : Scores, feedback : Feedbacks] :
        raw.layout # "bullets" => raw.tail = "" /\ ~raw.cap }

\* JSON values of the remaining kinds, and the mark of a key an object
\* does not have
JList == [t |-> "list", b |-> FALSE, n |-> 0, s |-> ""]
JDict == [t |-> "object", b |-> FALSE, n |-> 0, s |-> ""]
NoKey == [t |-> "absent", b |-> FALSE, n |-> 0, s |-> ""]

ValueOptions ==
    {NoKey, JBool(TRUE), JBool(FALSE), JNum(8), JStr("x"), JNull, JList, JDict}

ValidOptions == {NoKey, JBool(TRUE), JBool(FALSE), JStr("x"), JNull}

\* the object with the keys whose option is a value
MakeObject(passed, valid, score, feedback) ==
    LET Val(o) == IF o = NoKey THEN JNull ELSE o
    IN  JObject({k \in {"passed"} : passed # NoKey}
                \cup {k \in {"valid"} : valid # NoKey}
                \cup {k \in {"score"} : score # NoKey}
                \cup {k \in {"feedback"} : feedback # NoKey},
                Val(passed), Val(valid), Val(score), Val(feedback))

ParsedObjects ==
    { MakeObject(p, v, sc, f) : p \in ValueOptions, v \in ValidOptions,
                                sc \in ValueOptions, f \in ValueOptions }

\* A JSON document is an object, a list, or braces around something that
\* is not JSON ("garbage").
DocOf(obj) == [json |-> "object", obj |-> obj]
ListDoc    == [json |-> "list", obj |-> EmptyObject]
GarbageDoc == [json |-> "garbage", obj |-> EmptyObject]
NoDoc      == [json |-> "none", obj |-> EmptyObject]

JudgmentA == MakeObject(JBool(TRUE), NoKey, JNum(8), JStr("A"))
JudgmentB == MakeObject(JBool(FALSE), NoKey, JNum(5), JStr("B"))
PartialObject == MakeObject(JBool(TRUE), NoKey, NoKey, NoKey)

\* what the bullet lines of a part carry: passed true, score 1.0, feedback C
BulletJudgment == MakeObject(JBool(TRUE), NoKey, JNum(10), JStr("C"))

SmallDocs ==
    {DocOf(JudgmentA), DocOf(JudgmentB), DocOf(EmptyObject),
     DocOf(PartialObject), GarbageDoc, ListDoc}

\* A part of a text stands on lines of its own: a fenced block labeled
\* json, an unlabeled fenced block, a bare JSON document, a list of bullet
\* lines, or words of prose.
Parts ==
    { [kind |-> k, doc |-> d] : k \in {"labeled", "unlabeled", "bare"},
                                 d \in SmallDocs }
    \cup { [kind |-> "bullets", doc |-> NoDoc], [kind |-> "words", doc |-> NoDoc] }

\* texts of one or two parts, and the texts that are one JSON object
PartTexts ==
    { [layout |-> "parts", parts |-> <<p>>] : p \in Parts }
    \cup { [layout |-> "parts", parts |-> <<p, q>>] : p \in Parts, q \in Parts }
    \cup { [layout |-> "parts", parts |-> <<[kind |-> "bare", doc |-> DocOf(o)]>>] :
             o \in ParsedObjects }

RawTexts == StructuredTexts \cup {EmptyText, ProseText} \cup PartTexts

SpellBool(b, cap) ==
    IF b THEN (IF cap THEN "True" ELSE "true")
    ELSE (IF cap THEN "False" ELSE "false")

SpellScore(n) ==
    CASE n = 0 -> "0" [] n = 8 -> "0.8" [] n = 10 -> "1.0" [] n = -5 -> "-0.5"

\* the spellings a bullet value is made of
Bodies ==
    {SpellBool(b, cap) : b \in BOOLEAN, cap \in BOOLEAN}
    \cup {SpellScore(n) : n \in Scores} \cup Feedbacks

\* value.strip()
Strip(value) == CHOOSE body \in Bodies : \E tail \in Tails : value = body \o tail

TailOf(value) == CHOOSE tail \in Tails : value = Strip(value) \o tail

\* value.lower()
Lower(value) ==
    LET body == Strip(value)
        low  == CASE body = "True" -> "true"
                  [] body = "False" -> "false"
                  [] body = "Good work" -> "good work"
                  [] OTHER -> body
    IN  low \o TailOf(value)

\* value.replace('.', '', 1).isdigit(): digits around at most one point
IsDigitText(value) == value \in {"0", "0.8", "1.0", "10"}

\* float(value), in tenths
FloatOfText(value) ==
    CASE value = "0" -> 0 [] value = "0.8" -> 8 [] value = "1.0" -> 10
      [] value = "10" -> 100

\* the conversion of one bullet value
BulletValue(value) ==
    IF Lower(value) = "true" THEN JBool(TRUE)
    ELSE IF Lower(value) = "false" THEN JBool(FALSE)
    ELSE IF IsDigitText(value) THEN JNum(FloatOfText(value))
    ELSE JStr(Strip(value))

\* What a strategy finds: "none" (no match), "garbage" (a match json.loads
\* rejects) or "object" (the object the text carries).

\* json.loads(text): the whole text is one JSON document
DirectParse(raw) ==
    IF raw.layout = "plain" /\ raw.before = "" /\ raw.after = ""
    THEN "object" ELSE "none"

\* ```(?:json)?\s*(\{.*?\})\s*``` : the leftmost fence opening on a brace
LabeledFence(raw) ==
    IF raw.before = "snippet" THEN "garbage"
    ELSE IF raw.layout \in {"fence_json", "fence"} THEN "object"
    ELSE "none"

\* ```\s*(\{.*?\})\s*```
UnlabeledFence(raw) ==
    IF raw.before = "snippet" THEN "garbage"
    ELSE IF raw.layout = "fence" THEN "object"
    ELSE "none"

\* (\{.*?\})\s*$ : from the leftmost brace to a brace that ends the text
TrailingObject(raw) ==
    IF raw.layout = "plain" /\ raw.after = ""
    THEN (IF raw.before = "snippet" THEN "garbage" ELSE "object")
    ELSE "none"

\* "- passed:" in text or "- valid:" in text or "- score:" in text
HasBulletMarker(raw) == raw.layout = "bullets"

\* the object json.loads builds from the object the text carries
JsonObject(raw) ==
    JObject({"passed", "score", "feedback"}, JBool(raw.passed), JNull,
            JNum(raw.score), JStr(raw.feedback))

\* bullet_json: one entry per line matching -\s+([a-zA-Z_]+):\s+(.+)
BulletJson(raw) ==
    JObject({"passed", "score", "feedback"},
            BulletValue(SpellBool(raw.passed, raw.cap) \o raw.tail), JNull,
            BulletValue(SpellScore(raw.score) \o raw.tail),
            BulletValue(raw.feedback \o raw.tail))

\* What a strategy finds in a text, with the object when it finds one;
\* "value" is a JSON document that is not an object.
Finding(kind, obj) == [kind |-> kind, obj |-> obj]

NoFinding == Finding("none", EmptyObject)

FindingOf(doc) ==
    IF doc.json = "object" THEN Finding("object", doc.obj)
    ELSE IF doc.json = "list" THEN Finding("value", EmptyObject)
    ELSE Finding("garbage", EmptyObject)

InLayout(kind, raw) ==
    IF kind = "object" THEN Finding("object", JsonObject(raw))
    ELSE Finding(kind, EmptyObject)

Least(S) == CHOOSE i \in S : \A j \in S : i <= j

\* the parts that hold a brace
Braced(ps) ==
    {i \in 1..Len(ps) : /\ ps[i].kind \in {"labeled", "unlabeled", "bare"}
                        /\ ps[i].doc.json # "list"}

\* json.loads(text) on a text of parts: the text is one bare document
DirectParts(ps) ==
    IF Len(ps) = 1 /\ ps[1].kind = "bare" /\ ps[1].doc.json # "garbage"
    THEN FindingOf(ps[1].doc) ELSE NoFinding

\* the capture of re.search for one of the two fence patterns: the
\* leftmost fence of a kind in kinds that opens on a brace
FenceParts(ps, kinds) ==
    LET fences == {i \in Braced(ps) : ps[i].kind \in kinds}
    IN  IF fences = {} THEN NoFinding ELSE FindingOf(ps[Least(fences)].doc)

\* the capture of (\{.*?\})\s*$ : it starts at the leftmost brace of the
\* text and ends at a brace that ends the text
TrailingParts(ps) ==
    LET last == Len(ps)
    IN  IF last \in Braced(ps) /\ ps[last].kind = "bare"
        THEN (IF Least(Braced(ps)) = last THEN FindingOf(ps[last].doc)
              ELSE Finding("garbage", EmptyObject))
        ELSE NoFinding

\* json.loads(text)
DirectFinding(raw) ==
    IF raw.layout = "parts" THEN DirectParts(raw.parts)
    ELSE InLayout(DirectParse(raw), raw)

\* patterns[i]: re.search and json.loads of the capture
PatternFinding(raw, i) ==
    IF raw.layout = "parts"
    THEN CASE i = 1 -> FenceParts(raw.parts, {"labeled", "unlabeled"})
           [] i = 2 -> FenceParts(raw.parts, {"unlabeled"})
           [] i = 3 -> TrailingParts(raw.parts)
    ELSE CASE i = 1 -> InLayout(LabeledFence(raw), raw)
           [] i = 2 -> InLayout(UnlabeledFence(raw), raw)
           [] i = 3 -> InLayout(TrailingObject(raw), raw)

\* "- passed:" in text or "- valid:" in text or "- score:" in text
BulletMarker(raw) ==
    IF raw.layout = "parts"
    THEN \E i \in 1..Len(raw.parts) : raw.parts[i].kind = "bullets"
    ELSE HasBulletMarker(raw)

\* bullet_json
BulletFinding(raw) ==
    IF raw.layout = "parts" THEN Finding("object", BulletJudgment)
    ELSE Finding("object", BulletJson(raw))

\* not parsed_json: nothing was parsed, or an empty object was
Falsy(finding) == finding.kind # "object" \/ finding.obj.keys = {}

\* parsed_json after the bullet strategy, found being parsed_json after
\* the patterns
AfterPatterns(raw, found) ==
    IF Falsy(found) /\ BulletMarker(raw) THEN BulletFinding(raw) ELSE found

\* the loop over patterns stops at the first capture json.loads accepts
FirstHit(hits) == Least(hits)

\* parsed_json after the strategies, as a text of the form
\* ParseJsonFromLlmOutput takes
ExtractJson(raw) ==
    IF raw.layout = "empty" THEN [form |-> "empty", obj |-> EmptyObject]
    ELSE LET direct == DirectFinding(raw)
         IN  IF direct.kind = "object" THEN [form |-> "json", obj |-> direct.obj]
             ELSE IF direct.kind = "value"
                  THEN [form |-> "value", obj |-> EmptyObject]
             ELSE LET hits == {i \in 1..3 : PatternFinding(raw, i).kind = "object"}
                      found == IF hits = {} THEN NoFinding
                               ELSE PatternFinding(raw, FirstHit(hits))
                      parsed_json == AfterPatterns(raw, found)
                  IN  IF Falsy(parsed_json)
                      THEN [form |-> "prose", obj |-> EmptyObject]
                      ELSE [form |-> "json", obj |-> parsed_json.obj]

\* _parse_json_from_llm_output(text)
ParseRawText(raw) == ParseJsonFromLlmOutput(ExtractJson(raw))

----------------------------------------------------------------------------
(* MetricsCollector.  A metrics dictionary is the set of keys it has and   *)
(* the value of each key, 0 for an absent key.  latency_ms is in           *)
(* milliseconds, tokens_per_second in hundredths (333.33 is 33333).        *)

MetricFields ==
    {"latency_ms", "input_tokens", "output_tokens", "total_tokens",
     "tokens_per_second"}

Metrics(keys, latency, input, output, total, rate) ==
    [keys |-> keys, latency_ms |-> latency, input_tokens |-> input,
     output_tokens |-> output, total_tokens |-> total,
     tokens_per_second |-> rate]

\* {}
NoMetrics == Metrics({}, 0, 0, 0, 0, 0)

\* round(a / b, 2) for a, b in hundredths of the quotient's unit: the
\* nearest integer to a / b, the even one of two equally near
RoundDiv(a, b) ==
    LET q == a \div b
        r == a % b
    IN  IF 2 * r < b THEN q
        ELSE IF 2 * r > b THEN q + 1
        ELSE IF q % 2 = 0 THEN q ELSE q + 1

\* round(output_tokens / (latency_ms / 1000.0), 2), in hundredths
TokensPerSecond(output_tokens, latency_ms) ==
    RoundDiv(output_tokens * 100000, latency_ms)

\* the records merge_metrics is called with
MetricsRecords ==
    { m \in [keys : SUBSET MetricFields, latency_ms : {0, 100, 200},
             input_tokens : {0, 10}, output_tokens : {0, 50},
             total_tokens : {0, 60}, tokens_per_second : {0, 50000}] :
        /\ "latency_ms" \notin m.keys => m.latency_ms = 0
        /\ "input_tokens" \notin m.keys => m.input_tokens = 0
        /\ "input_tokens" \in m.keys => m.input_tokens = 10
        /\ "output_tokens" \notin m.keys => m.output_tokens = 0
        /\ "total_tokens" \notin m.keys => m.total_tokens = 0
        /\ "total_tokens" \in m.keys => m.total_tokens = 60
        /\ "tokens_per_second" \notin m.keys => m.tokens_per_second = 0
        /\ "tokens_per_second" \in m.keys => m.tokens_per_second = 50000 }

MaxMerged == 2

MetricsLists == UNION { [1..n -> MetricsRecords] : n \in 0..MaxMerged }

\* the loop of lines 108-112 from position i on: merged[field] +=
\* metrics.get(field, 0)
RECURSIVE SumFrom(_, _, _)
SumFrom(list, field, i) ==
    IF i > Len(list) THEN 0
    ELSE (IF field \in list[i].keys THEN list[i][field] ELSE 0)
         + SumFrom(list, field, i + 1)

\* mutant: an empty list gives the four sums, all zero
MergedOfNothingZeros ==
    Metrics(MetricFields \ {"tokens_per_second"}, 0, 0, 0, 0, 0)

\* lines 98-99
MergedOfNothing == NoMetrics

\* mutant: the rate is computed whenever the merged latency is positive
HasRateOnLatency(latency_ms, output_tokens) == latency_ms > 0

\* merged['latency_ms'] > 0 and merged['output_tokens'] > 0
HasRate(latency_ms, output_tokens) == latency_ms > 0 /\ output_tokens > 0

\* merge_metrics(metrics_list)
merge_metrics(list) ==
    IF list = <<>> THEN MergedOfNothing
    ELSE LET latency == SumFrom(list, "latency_ms", 1)
             output == SumFrom(list, "output_tokens", 1)
             rated == HasRate(latency, output)
         IN  Metrics((MetricFields \ {"tokens_per_second"})
                         \cup (IF rated THEN {"tokens_per_second"} ELSE {}),
                     latency,
                     SumFrom(list, "input_tokens", 1),
                     output,
                     SumFrom(list, "total_tokens", 1),
                     IF rated THEN TokensPerSecond(output, latency) ELSE 0)

----------------------------------------------------------------------------
(* validate_result *)

\* metricsKey is the key under which the result carries its total metrics
NoResult == [isValid |-> FALSE, finalScore |-> -1, stageResults |-> <<>>,
             aggregateFeedback |-> <<>>, none |-> TRUE,
             metricsKey |-> "none", totalMetrics |-> NoMetrics]

NewResult == [isValid |-> TRUE, finalScore |-> 0, stageResults |-> <<>>,
              aggregateFeedback |-> <<>>, none |-> FALSE,
              metricsKey |-> "total_validation_metrics",
              totalMetrics |-> NoMetrics]

\* stage_output
StageOutput(stage, data, stage_metrics) ==
    [stageId |-> stage.id, passed |-> data.passed, score |-> data.score,
     feedback |-> data.feedback, metrics |-> stage_metrics]

\* the metrics dictionaries an executor attaches: none, a full one, one
\* without a rate
NoStageMetrics == {NoMetrics}

StageMetricsChoices ==
    {NoMetrics,
     Metrics(MetricFields, 100, 10, 50, 60, 50000),
     Metrics({"latency_ms", "output_tokens"}, 200, 0, 50, 0, 0)}

\* mutant: the weighted score is added whether or not the stage passed
ScoreContributionAlways(out, stage) == out.score * StageScoringImpact(stage)

\* the amount added to finalScore for a judged stage
ScoreContribution(out, stage) ==
    IF out.passed THEN out.score * StageScoringImpact(stage) ELSE 0

\* mutant: any failing stage stops the loop
LoopBreaksOnAnyFailure(out, stage) == ~out.passed

\* mutant: a failing stage never stops the loop
LoopBreaksNever(out, stage) == FALSE

\* the loop is left after this stage
LoopBreaks(out, stage) == ~out.passed /\ StageAbortOnFailure(stage)

\* mutant: an empty sequence proceeds into the loop-free path with
\* isValid computed as false
EmptySequenceResultInvalid ==
    [NewResult EXCEPT !.isValid = FALSE, !.metricsKey = "metrics"]

\* the result returned for an empty sequence
EmptySequenceResult == [NewResult EXCEPT !.metricsKey = "metrics"]

\* mutant: the caller's list is sorted in place
SequenceSortedInPlace(seq) == SortedStages(seq)

\* line 112: sorted() builds a new list, the argument keeps its order
SequenceAfterSort(seq) == seq

\* mutant: isValid follows the stage judged last
ValidAfterLast(valid, out) == out.passed

\* lines 186-187: isValid after a judged stage
ValidAfter(valid, out) == IF out.passed THEN valid ELSE FALSE

\* mutant: the total is merged from the metrics of the last stage
TotalMetricsOfLast(metrics_list) ==
    merge_metrics(IF metrics_list = <<>> THEN <<>>
                  ELSE <<metrics_list[Len(metrics_list)]>>)

\* line 207: the total attached to the result
TotalMetrics(metrics_list) == merge_metrics(metrics_list)

\* mutant: a parse failure is recorded as a failed judgment
ParseFailureRaisesNever(parsed) == FALSE

\* the parse outcome makes validate_result raise
ParseFailureRaises(parsed) == parsed.raised

VrInit ==
    /\ validation_sequence \in ValidationSequences
    /\ vr_pc = "idle"
    /\ sorted_stages = <<>>
    /\ stage_index = 0
    /\ validation_result = NoResult
    /\ vr_returned = NoResult
    /\ rendered = <<>>
    /\ executed = <<>>
    /\ vr_failure = "none"
    /\ all_stage_metrics = <<>>
    /\ llm_s_metrics = NoStageMetrics

\* lines 94-96: empty sequence
ValidateEmpty ==
    /\ vr_pc = "idle"
    /\ validation_sequence = <<>>
    /\ vr_pc' = "returned"
    /\ vr_returned' = EmptySequenceResult
    /\ UNCHANGED <<validation_sequence, sorted_stages, stage_index,
                   validation_result, rendered, executed, vr_failure,
                   all_stage_metrics, llm_s_metrics>>
    /\ UNCHANGED <<suiteVars, runVars, toolVars>>

\* lines 98-112: initialise the result and sort
ValidateBegin ==
    /\ vr_pc = "idle"
    /\ validation_sequence # <<>>
    /\ validation_result' = NewResult
    /\ all_stage_metrics' = <<>>
    /\ sorted_stages' = SortedStages(validation_sequence)
    /\ validation_sequence' = SequenceAfterSort(validation_sequence)
    /\ stage_index' = 1
    /\ vr_pc' = "loop"
    /\ UNCHANGED <<vr_returned, rendered, executed, vr_failure, llm_s_metrics>>
    /\ UNCHANGED <<suiteVars, runVars, toolVars>>

CurrentStage == sorted_stages[stage_index]

InLoop == vr_pc = "loop" /\ stage_index <= Len(sorted_stages)

\* the function raises: its locals are gone, nothing is returned
Raise(failure) ==
    /\ vr_pc' = "raised"
    /\ vr_failure' = failure
    /\ validation_result' = NoResult
    /\ all_stage_metrics' = <<>>
    /\ UNCHANGED <<validation_sequence, sorted_stages, stage_index, vr_returned,
                   llm_s_metrics>>

\* lines 125-129: the stage has no template
StageMissingTemplate ==
    /\ InLoop
    /\ ~StageHasTemplate(CurrentStage)
    /\ Raise("template")
    /\ UNCHANGED <<rendered, executed>>
    /\ UNCHANGED <<suiteVars, runVars, toolVars>>

\* lines 131-135: process_template returns no prompt
StageRenderFails ==
    /\ InLoop
    /\ StageHasTemplate(CurrentStage)
    /\ rendered' = Append(rendered, CurrentStage.id)
    /\ Raise("render")
    /\ UNCHANGED executed
    /\ UNCHANGED <<suiteVars, runVars, toolVars>>

\* lines 145-151, 160-163: the executor raises or returns an error
StageExecutorFails ==
    /\ InLoop
    /\ StageHasTemplate(CurrentStage)
    /\ rendered' = Append(rendered, CurrentStage.id)
    /\ executed' = Append(executed, CurrentStage.id)
    /\ Raise("executor")
    /\ UNCHANGED <<suiteVars, runVars, toolVars>>

\* lines 153-154, 160-163: the text of the executor cannot be parsed
StageParseFails ==
    /\ InLoop
    /\ StageHasTemplate(CurrentStage)
    /\ \E text \in Texts :
          /\ ParseFailureRaises(ParseJsonFromLlmOutput(text))
    /\ rendered' = Append(rendered, CurrentStage.id)
    /\ executed' = Append(executed, CurrentStage.id)
    /\ Raise("parse")
    /\ UNCHANGED <<suiteVars, runVars, toolVars>>

\* lines 153-198: the stage is judged, recorded and scored
StageJudged ==
    /\ InLoop
    /\ StageHasTemplate(CurrentStage)
    /\ \E text \in Texts, stage_metrics \in llm_s_metrics :
          LET parsed == ParseJsonFromLlmOutput(text)
              out == StageOutput(CurrentStage, parsed.data, stage_metrics)
          IN  /\ ~ParseFailureRaises(parsed)
              /\ vr_failure' = IF parsed.raised THEN "parse" ELSE vr_failure
              /\ all_stage_metrics' = Append(all_stage_metrics, stage_metrics)
              /\ validation_result' =
                    [validation_result EXCEPT
                       !.stageResults = Append(@, out),
                       !.aggregateFeedback =
                           IF out.feedback # ""
                           THEN Append(@, <<out.stageId, out.feedback>>)
                           ELSE @,
                       !.isValid = ValidAfter(@, out),
                       !.finalScore = @ + ScoreContribution(out, CurrentStage)]
              /\ stage_index' = IF LoopBreaks(out, CurrentStage)
                                THEN Len(sorted_stages) + 1
                                ELSE stage_index + 1
    /\ rendered' = Append(rendered, CurrentStage.id)
    /\ executed' = Append(executed, CurrentStage.id)
    /\ UNCHANGED <<validation_sequence, vr_pc, sorted_stages, vr_returned,
                   llm_s_metrics>>
    /\ UNCHANGED <<suiteVars, runVars, toolVars>>

\* lines 206-210: the loop is over, the result is returned
ValidateReturn ==
    /\ vr_pc = "loop"
    /\ stage_index > Len(sorted_stages)
    /\ vr_pc' = "returned"
    /\ vr_returned' =
          [validation_result EXCEPT
             !.totalMetrics = TotalMetrics(all_stage_metrics)]
    /\ UNCHANGED <<validation_sequence, sorted_stages, stage_index,
                   validation_result, rendered, executed, vr_failure,
                   all_stage_metrics, llm_s_metrics>>
    /\ UNCHANGED <<suiteVars, runVars, toolVars>>

NextValidate ==
    \/ ValidateEmpty
    \/ ValidateBegin
    \/ StageMissingTemplate
    \/ StageRenderFails
    \/ StageExecutorFails
    \/ StageParseFails
    \/ StageJudged
    \/ ValidateReturn

\* validate_result is not running (the state of SpecSuite)
VrIdle ==
    /\ validation_sequence = <<>>
    /\ vr_pc = "absent"
    /\ sorted_stages = <<>>
    /\ stage_index = 0
    /\ validation_result = NoResult
    /\ vr_returned = NoResult
    /\ rendered = <<>>
    /\ executed = <<>>
    /\ vr_failure = "none"
    /\ all_stage_metrics = <<>>
    /\ llm_s_metrics = NoStageMetrics

----------------------------------------------------------------------------
(* run_test_suite: the loaded test suite.  cloud: models.cloud_llm is set; *)
(* tcs, hps, ems: the lengths of test_cases, hardware_profiles and         *)
(* models.edge_llm; runparams: run_parameters is non-empty; bad_params:    *)
(* the run (2 or 4) whose entry of run_parameters is not a mapping, 0 if   *)
(* there is none; sequence_selected: the entries of run_2 and run_4 both   *)
(* name a validation_sequence.                                             *)

SuiteConfigs ==
    { cfg \in [cloud : BOOLEAN, tcs : 0..MaxCombos, hps : 0..MaxCombos,
               ems : 0..MaxCombos, runparams : BOOLEAN, bad_params : {0, 2, 4},
               sequence_selected : BOOLEAN] :
        /\ cfg.tcs * cfg.hps * cfg.ems <= MaxCombos
        /\ (~cfg.runparams => cfg.bad_params = 0)
        /\ (cfg.sequence_selected => cfg.runparams /\ cfg.bad_params = 0) }

\* lines 149-152, 168-170: a required part of the configuration is missing
ConfigMissing(cfg) == ~cfg.cloud \/ cfg.ems = 0 \/ ~cfg.runparams

\* test_case["shared_teacher_request"] is not set
NoContext == "none"

\* the topic and constraints of test_case["variables"] and
\* test_case["constraints"]
CaseContext == "case"

\* what a teacher request can contain: the topic and constraints of the
\* test case, or other ones written by the model
ContextContents == {CaseContext, "generated"}

NoContextEvents == [generated |-> 0, written |-> 0]

\* a teacher request was made for test case t
Generated(events, t) == [events EXCEPT ![t].generated = @ + 1]

\* its content was stored in the test case
Written(events, t) == [events EXCEPT ![t].written = @ + 1]

\* a run result as run_data keeps it: absent until the run method returned
Absent == [present |-> FALSE, status |-> "none", error |-> FALSE, context |-> NoContext]

RunNumbers == 1..4

NoRecord ==
    [n |-> 0, combo |-> <<0, 0, 0>>, status |-> "none", error |-> "none",
     runs |-> [k \in RunNumbers |-> Absent]]

\* _create_run_data_struct: the record of combination number n
CreateRunDataStruct(n, combo) ==
    [n |-> n, combo |-> combo, status |-> "initialized", error |-> "none",
     runs |-> [k \in RunNumbers |-> Absent]]

\* what the list of results and the logger keep of a record: its identity,
\* its status and error, and whether its four runs are there, all
\* completed, or some failed
LogEntry(rec) ==
    [n |-> rec.n, combo |-> rec.combo, status |-> rec.status,
     error |-> rec.error,
     runs_present |-> \A k \in RunNumbers : rec.runs[k].present,
     runs_completed |-> \A k \in RunNumbers : rec.runs[k].status = "completed",
     runs_failed |-> \E k \in RunNumbers : rec.runs[k].status = "failed"]

NoSuiteResult ==
    [status |-> "none", total_runs |-> 0, successful_runs |-> 0, error_count |-> 0]

\* _log_and_return_error
LogAndReturnError ==
    [status |-> "failed", total_runs |-> 0, successful_runs |-> 0, error_count |-> 1]

CountWhere(results, Test(_)) ==
    Cardinality({ i \in 1..Len(results) : Test(results[i]) })

HasError(r) == r.error # "none"

IsCompleted(r) == r.status = "completed"

\* _create_analysis_summary
CreateAnalysisSummary(counter, results) ==
    [status |-> "summary", total_runs |-> counter,
     successful_runs |-> CountWhere(results, IsCompleted),
     error_count |-> CountWhere(results, HasError)]

\* run_results has no final_decision
NoDecision == [present |-> FALSE, passed |-> FALSE, passed_constraints |-> FALSE]

\* mutant: the final decision reports both outcomes as passed
FinalDecisionAllPassed(judged, cpass) ==
    [present |-> TRUE, passed |-> TRUE, passed_constraints |-> TRUE]

\* lines 331-335, 427-432, 497-501, 585-590: final_decision; passed is
\* passed_evaluation in a baseline run and passed_validation in a guided run
FinalDecision(judged, cpass) ==
    [present |-> TRUE, passed |-> judged, passed_constraints |-> cpass]

\* the "metrics" of a step result: empty ({} or None), or the counters of
\* a model call (one counter stands for latency_ms and the token counts)
EmptyMetrics == [present |-> FALSE, tokens |-> 0]

CallMetrics == [present |-> TRUE, tokens |-> 1]

\* lines 375-379: the metrics written for a reused teacher request
ReusedMetrics == [present |-> TRUE, tokens |-> 0]

RECURSIVE SumTokens(_)
SumTokens(metrics_list) ==
    IF metrics_list = <<>> THEN 0
    ELSE Head(metrics_list).tokens + SumTokens(Tail(metrics_list))

\* MetricsCollector.merge_metrics: {} for an empty list, else the sums
MergeMetrics(metrics_list) ==
    IF metrics_list = <<>> THEN EmptyMetrics
    ELSE [present |-> TRUE, tokens |-> SumTokens(metrics_list)]

\* [m for m in all_metrics if m]
Truthy(metrics_list) == SelectSeq(metrics_list, LAMBDA m : m.present)

NoRunResults ==
    [status |-> "none", error |-> FALSE, steps |-> <<>>, judged |-> FALSE,
     cpass |-> FALSE, decision |-> NoDecision, context |-> NoContext,
     step_metrics |-> <<>>, all_metrics |-> <<>>, total_metrics |-> EmptyMetrics,
     has_total_metrics |-> FALSE, sequence |-> "none"]

SuiteInitWith(cfg) ==
    /\ suite_cfg = cfg
    /\ rs_pc = "start"
    /\ tci = 0 /\ hpi = 0 /\ emi = 0
    /\ run_counter = 0
    /\ shared_teacher_request = [t \in 1..cfg.tcs |-> NoContext]
    /\ context_events = [t \in 1..cfg.tcs |-> NoContextEvents]
    /\ run_data = NoRecord
    /\ test_suite_results = <<>>
    /\ logged = <<>>
    /\ suite_result = NoSuiteResult
    /\ teacher_failed = {}
    /\ next_run = 0
    /\ cur_run = 0
    /\ r_pc = "none"
    /\ run_results = NoRunResults
    /\ run_faults = {}
    /\ run_calls = <<>>
    /\ run_starts = <<>>
    /\ active_runs = {}
    /\ calls_in_flight = 0

SuiteInit == \E cfg \in SuiteConfigs : SuiteInitWith(cfg)

\* run_test_suite is not running (the state of SpecValidate)
SuiteIdle ==
    SuiteInitWith([cloud |-> TRUE, tcs |-> 0, hps |-> 0, ems |-> 0,
                   runparams |-> TRUE, bad_params |-> 0,
                   sequence_selected |-> TRUE])

ReturnSuiteError ==
    /\ rs_pc' = "failed"
    /\ suite_result' = LogAndReturnError
    /\ UNCHANGED <<suite_cfg, tci, hpi, emi, run_counter, shared_teacher_request, context_events,
                   run_data, test_suite_results, logged, teacher_failed>>
    /\ UNCHANGED <<toolVars, vrVars, runVars>>

\* lines 137-142: load_test_suite raises
SuiteLoadFails ==
    /\ rs_pc = "start"
    /\ ReturnSuiteError

\* lines 146-152, 168-170: a model id or the run parameters are missing
SuiteConfigError ==
    /\ rs_pc = "start"
    /\ ConfigMissing(suite_cfg)
    /\ ReturnSuiteError

\* lines 155-161: initialize_cloud_llm raises
CloudInitFails ==
    /\ rs_pc = "start"
    /\ suite_cfg.cloud /\ suite_cfg.ems > 0
    /\ ReturnSuiteError

\* lines 164-174: the configuration is complete, the loops begin
SuiteBegin ==
    /\ rs_pc = "start"
    /\ ~ConfigMissing(suite_cfg)
    /\ rs_pc' = "case"
    /\ tci' = 1 /\ hpi' = 1 /\ emi' = 1
    /\ UNCHANGED <<suite_cfg, run_counter, shared_teacher_request, context_events, run_data,
                   test_suite_results, logged, suite_result, teacher_failed>>
    /\ UNCHANGED <<toolVars, vrVars, runVars>>

\* a model-execution call is sent: the teacher request of a test case, or
\* the call of the current step of a run
ModelCallSteps == {"gen", "answer", "eval", "validate", "review"}

\* the step at position pc of the run method calls its model
Called(calls, pc) == Append(calls, [step |-> pc, metrics |-> EmptyMetrics])

\* the call returned with these metrics
Answered(calls, metrics) == [calls EXCEPT ![Len(calls)].metrics = metrics]

IssueModelCall ==
    /\ calls_in_flight = 0
    /\ \/ rs_pc = "case" /\ tci <= suite_cfg.tcs
       \/ rs_pc = "in_run" /\ r_pc \in ModelCallSteps
    /\ calls_in_flight' = calls_in_flight + 1
    /\ run_calls' = IF rs_pc = "in_run" THEN Called(run_calls, r_pc) ELSE run_calls
    /\ UNCHANGED <<next_run, cur_run, r_pc, run_results, run_faults,
                   run_starts, active_runs>>
    /\ UNCHANGED <<toolVars, vrVars, suiteVars>>

\* the loop position once the test case at index t is done with
NextCase(t) == [pc |-> "case", t |-> t + 1, h |-> 1, e |-> 1]

\* the loop position after the combination (tci, hpi, emi)
AfterCombo ==
    IF emi < suite_cfg.ems THEN [pc |-> "combo", t |-> tci, h |-> hpi, e |-> emi + 1]
    ELSE IF hpi < suite_cfg.hps THEN [pc |-> "combo", t |-> tci, h |-> hpi + 1, e |-> 1]
    ELSE NextCase(tci)

GoTo(pos) ==
    /\ rs_pc' = pos.pc
    /\ tci' = pos.t /\ hpi' = pos.h /\ emi' = pos.e

\* lines 181-184: the teacher request reports an error, the test case is
\* skipped
TeacherRequestError ==
    /\ rs_pc = "case" /\ tci <= suite_cfg.tcs
    /\ calls_in_flight = 1
    /\ calls_in_flight' = 0
    /\ teacher_failed' = teacher_failed \cup {tci}
    /\ context_events' = Generated(context_events, tci)
    /\ GoTo(NextCase(tci))
    /\ UNCHANGED <<suite_cfg, run_counter, shared_teacher_request, run_data,
                   test_suite_results, logged, suite_result>>
    /\ UNCHANGED <<next_run, cur_run, r_pc, run_results, run_faults, run_calls,
                   run_starts, active_runs>>
    /\ UNCHANGED <<toolVars, vrVars>>

\* lines 666-673 under line 181: the output of the teacher request cannot
\* be parsed; the exception leaves run_test_suite
TeacherRequestCrashes ==
    /\ rs_pc = "case" /\ tci <= suite_cfg.tcs
    /\ calls_in_flight = 1
    /\ calls_in_flight' = 0
    /\ rs_pc' = "crashed"
    /\ context_events' = Generated(context_events, tci)
    /\ UNCHANGED <<suite_cfg, tci, hpi, emi, run_counter, shared_teacher_request,
                   run_data, test_suite_results, logged, suite_result,
                   teacher_failed>>
    /\ UNCHANGED <<next_run, cur_run, r_pc, run_results, run_faults, run_calls,
                   run_starts, active_runs>>
    /\ UNCHANGED <<toolVars, vrVars>>

\* lines 186-195: the shared teacher request is stored in the test case
TeacherRequestOk ==
    /\ rs_pc = "case" /\ tci <= suite_cfg.tcs
    /\ calls_in_flight = 1
    /\ calls_in_flight' = 0
    /\ \E content \in ContextContents :
          shared_teacher_request' = [shared_teacher_request EXCEPT ![tci] = content]
    /\ context_events' = Written(Generated(context_events, tci), tci)
    /\ IF suite_cfg.hps = 0
       THEN GoTo(NextCase(tci))
       ELSE GoTo([pc |-> "combo", t |-> tci, h |-> 1, e |-> 1])
    /\ UNCHANGED <<suite_cfg, run_counter, run_data, test_suite_results, logged,
                   suite_result, teacher_failed>>
    /\ UNCHANGED <<next_run, cur_run, r_pc, run_results, run_faults, run_calls,
                   run_starts, active_runs>>
    /\ UNCHANGED <<toolVars, vrVars>>

\* lines 201-217: initialize_edge_llm raises; a record with an error is
\* appended and logged
EdgeInitFails ==
    /\ rs_pc = "combo"
    /\ LET rec == [CreateRunDataStruct(run_counter + 1, <<tci, hpi, emi>>)
                     EXCEPT !.error = "init"]
       IN  /\ test_suite_results' = Append(test_suite_results, LogEntry(rec))
           /\ logged' = Append(logged, LogEntry(rec))
    /\ run_counter' = run_counter + 1
    /\ GoTo(AfterCombo)
    /\ UNCHANGED <<suite_cfg, shared_teacher_request, context_events, run_data, suite_result,
                   teacher_failed>>
    /\ UNCHANGED <<toolVars, vrVars, runVars>>

\* the first run of a combination (line 234)
FirstRun == 1

\* the last run of a combination (line 254)
LastRun == 4

\* mutant: the run that returned is called again
NextRunAgain(k) == k

\* mutant: Run 3 is called before Run 2
NextRunAfterSwapped(k) == IF k = 1 THEN 3 ELSE IF k = 3 THEN 2 ELSE 4

\* lines 232-256: the run called after run k returned
NextRunAfter(k) == k + 1

\* lines 201-220: the edge model is initialised, the record is created
EdgeInitOk ==
    /\ rs_pc = "combo"
    /\ run_counter' = run_counter + 1
    /\ run_data' = CreateRunDataStruct(run_counter + 1, <<tci, hpi, emi>>)
    /\ rs_pc' = "run"
    /\ next_run' = FirstRun
    /\ run_starts' = <<>>
    /\ UNCHANGED <<suite_cfg, tci, hpi, emi, shared_teacher_request, context_events,
                   test_suite_results, logged, suite_result, teacher_failed>>
    /\ UNCHANGED <<cur_run, r_pc, run_results, run_faults, run_calls, active_runs,
                   calls_in_flight>>
    /\ UNCHANGED <<toolVars, vrVars>>

IsGuided(k) == k \in {2, 4}

\* lines 239, 252: the validation sequence id cannot be read from the run
\* parameters of run k
ParamsLookupFails(k) == IsGuided(k) /\ suite_cfg.bad_params = k

\* lines 239/252 and 261-263: reading the run parameters raises; the
\* exception is caught at the combination and stored in the record
ParamsLookupRaises ==
    /\ rs_pc = "run"
    /\ ParamsLookupFails(next_run)
    /\ run_data' = [run_data EXCEPT !.error = "exec"]
    /\ rs_pc' = "finally"
    /\ UNCHANGED <<suite_cfg, tci, hpi, emi, run_counter, shared_teacher_request, context_events,
                   test_suite_results, logged, suite_result, teacher_failed>>
    /\ UNCHANGED <<toolVars, vrVars, runVars>>

\* lines 239, 252: the validation sequence a guided run is given, the
\* default when the run parameters name none
ValidationSequenceId(cfg) ==
    IF cfg.sequence_selected THEN "configured" ELSE "basic_validation_sequence"

\* mutant: Run 2 makes a teacher request of its own every time
RegeneratesContextAlways(k, shared) == k = 2

\* lines 360-369: Run 2 finds no shared teacher request in the test case
\* and makes a teacher request of its own
RegeneratesContext(k, shared) == k = 2 /\ shared = NoContext

\* the topic and constraints run k works with: a baseline run reads them
\* from the test case (lines 714-718, 326), a guided run from the shared
\* teacher request (lines 360, 534), Run 4 from the test case when there
\* is none (lines 537-544)
RunContext(k, shared) ==
    IF IsGuided(k) /\ shared # NoContext THEN shared ELSE CaseContext

\* lines 294-295, 354-380, 460-461, 528-550: a run method is entered
RunStart ==
    /\ rs_pc = "run"
    /\ ~ParamsLookupFails(next_run)
    /\ rs_pc' = "in_run"
    /\ cur_run' = next_run
    /\ r_pc' = "gen"
    /\ LET shared == shared_teacher_request[tci]
       IN  /\ \E content \in ContextContents :
                 run_results' =
                    [NoRunResults EXCEPT
                       !.status = "started",
                       !.sequence = IF IsGuided(next_run)
                                    THEN ValidationSequenceId(suite_cfg)
                                    ELSE "none",
                       !.steps = IF IsGuided(next_run)
                                 THEN <<"teacher_request">> ELSE <<>>,
                       !.step_metrics =
                            IF next_run = 2 THEN <<ReusedMetrics>>
                            ELSE IF next_run = 4 THEN <<EmptyMetrics>>
                            ELSE <<>>,
                       !.context = IF RegeneratesContext(next_run, shared)
                                   THEN content
                                   ELSE RunContext(next_run, shared)]
           /\ context_events' =
                 IF RegeneratesContext(next_run, shared)
                 THEN Generated(context_events, tci)
                 ELSE context_events
    /\ run_faults' = {}
    /\ run_calls' = <<>>
    /\ run_starts' = Append(run_starts, next_run)
    /\ active_runs' = active_runs \cup {next_run}
    /\ UNCHANGED <<next_run, calls_in_flight>>
    /\ UNCHANGED <<suite_cfg, tci, hpi, emi, run_counter, shared_teacher_request,
                   run_data, test_suite_results, logged, suite_result,
                   teacher_failed>>
    /\ UNCHANGED <<toolVars, vrVars>>

----------------------------------------------------------------------------
(* The four run methods.  A step returns with an outcome: "ok"; "error",   *)
(* the step result carries an error; "empty", no error and no text;        *)
(* "raise", the step raised an exception.                                  *)

\* run_results["steps"][step] = result
RecordStep(rr, step, metrics) ==
    [rr EXCEPT !.steps = Append(@, step), !.step_metrics = Append(@, metrics)]

\* all_metrics.append(result.get("metrics"))
CollectMetrics(rr, metrics) == [rr EXCEPT !.all_metrics = Append(@, metrics)]

\* lines 345, 442, 511, 600: total_metrics, set on the way out of the run
WithTotalMetrics(rr) ==
    [rr EXCEPT !.total_metrics = MergeMetrics(Truthy(rr.all_metrics)),
               !.has_total_metrics = TRUE]

\* mutant: the except clause sets the status and leaves out the error
FailedWithoutError(rr) == WithTotalMetrics([rr EXCEPT !.status = "failed"])

\* the except clause of a run method: status 'failed' and an error message
Failed(rr) == WithTotalMetrics([rr EXCEPT !.status = "failed", !.error = TRUE])

\* final_decision is stored and the status set to 'completed'
Completed(rr) ==
    WithTotalMetrics([rr EXCEPT !.status = "completed",
                                !.decision = FinalDecision(rr.judged, rr.cpass)])

\* mutant: the error of no step is looked at
StepErrorIsFatalNever(step) == FALSE

\* the steps after which a run method raises on result.get("error")
\* (lines 302, 313, 386, 394, 406 and their edge twins)
StepErrorIsFatal(step) ==
    step \in {"generated_question", "student_answer", "multi_stage_validation"}

\* the step ends the try block with an exception
StepFails(step, outcome) ==
    \/ outcome \in {"raise", "empty"}
    \/ outcome = "error" /\ StepErrorIsFatal(step)

\* the metrics a step can produce: a result without error comes from a
\* model call; an error is reported by the model call or, with empty
\* metrics, by template processing; a step raises before its model call or
\* after it (lines 808-812, 906-910)
StepMetrics(outcome) ==
    IF outcome \in {"error", "raise"} THEN {EmptyMetrics, CallMetrics}
    ELSE {CallMetrics}

\* run_results after the step: a step that raised stored no result
AfterStep(rr, step, outcome, metrics) ==
    LET stored == IF outcome = "raise" THEN rr
                  ELSE CollectMetrics(RecordStep(rr, step, metrics), metrics)
    IN  IF StepFails(step, outcome) THEN Failed(stored) ELSE stored

FaultOf(outcome) ==
    IF outcome = "error" THEN {"reported"}
    ELSE IF outcome \in {"raise", "empty"} THEN {"raised"}
    ELSE {}

InStep(pc) == rs_pc = "in_run" /\ r_pc = pc /\ calls_in_flight = 1

StepFrame ==
    /\ calls_in_flight' = 0
    /\ UNCHANGED <<next_run, cur_run, run_starts, active_runs>>
    /\ UNCHANGED <<toolVars, vrVars, suiteVars>>

\* lines 298-304, 382-388, 464-470, 552-558: question generation
GenerateQuestionReturns ==
    /\ InStep("gen")
    /\ \E outcome \in {"ok", "error", "empty"} :
       \E metrics \in StepMetrics(outcome) :
          /\ run_results' = AfterStep(run_results, "generated_question", outcome, metrics)
          /\ r_pc' = IF StepFails("generated_question", outcome)
                     THEN "exit" ELSE "answer"
          /\ run_faults' = run_faults \cup FaultOf(outcome)
          /\ run_calls' = Answered(run_calls, metrics)
    /\ StepFrame

\* lines 309-316, 390-397, 475-482, 560-567: the simulated student answer
StudentAnswerReturns ==
    /\ InStep("answer")
    /\ \E outcome \in {"ok", "error", "empty"} :
       \E metrics \in StepMetrics(outcome) :
          /\ run_results' = AfterStep(run_results, "student_answer", outcome, metrics)
          /\ r_pc' = IF StepFails("student_answer", outcome) THEN "exit"
                     ELSE IF IsGuided(cur_run) THEN "validate" ELSE "eval"
          /\ run_faults' = run_faults \cup FaultOf(outcome)
          /\ run_calls' = Answered(run_calls, metrics)
    /\ StepFrame

\* lines 318-323, 484-489: the single-shot evaluation of a baseline run
BaselineEvaluationReturns ==
    /\ InStep("eval")
    /\ \E outcome \in {"ok", "error", "raise"}, passed \in BOOLEAN :
       \E metrics \in StepMetrics(outcome) :
          /\ (outcome # "ok" => ~passed)
          /\ run_results' =
                [AfterStep(run_results, "baseline_evaluation", outcome, metrics)
                   EXCEPT !.judged = passed]
          /\ r_pc' = IF StepFails("baseline_evaluation", outcome)
                     THEN "exit" ELSE "constraint"
          /\ run_faults' = run_faults \cup FaultOf(outcome)
          /\ run_calls' = Answered(run_calls, metrics)
    /\ StepFrame

\* lines 399-407, 569-577: the multi-stage validation of a guided run
MultistageValidationReturns ==
    /\ InStep("validate")
    /\ \E outcome \in {"ok", "error", "raise"}, isValid \in BOOLEAN :
       \E metrics \in StepMetrics(outcome) :
          /\ (outcome # "ok" => ~isValid)
          /\ run_results' =
                [AfterStep(run_results, "multi_stage_validation", outcome, metrics)
                   EXCEPT !.judged = isValid]
          /\ r_pc' = IF StepFails("multi_stage_validation", outcome)
                     THEN "exit" ELSE "constraint"
          /\ run_faults' = run_faults \cup FaultOf(outcome)
          /\ run_calls' = Answered(run_calls, metrics)
    /\ StepFrame

\* lines 413-415: the teacher review step is called (Run 2 only; Run 4 has
\* no such step)
ReviewNeeded(k, isValid, passed) == k = 2 /\ (~isValid \/ ~passed)

\* lines 325-337, 409-434, 491-503, 579-592: the constraint check, and for
\* a run without review the final decision
ConstraintEnforcement ==
    /\ rs_pc = "in_run" /\ r_pc = "constraint"
    /\ \E passed \in BOOLEAN :
          LET rr == [RecordStep(run_results, "constraint_enforcement", EmptyMetrics)
                       EXCEPT !.cpass = passed]
          IN  IF ReviewNeeded(cur_run, run_results.judged, passed)
              THEN /\ run_results' = rr
                   /\ r_pc' = "review"
              ELSE /\ run_results' =
                         Completed(IF cur_run = 2
                                   THEN RecordStep(rr, "teacher_review_skipped",
                                                   EmptyMetrics)
                                   ELSE rr)
                   /\ r_pc' = "exit"
    /\ UNCHANGED <<next_run, cur_run, run_faults, run_calls, run_starts, active_runs,
                   calls_in_flight>>
    /\ UNCHANGED <<toolVars, vrVars, suiteVars>>

\* lines 416-434: the teacher review of Run 2 and the final decision
TeacherReviewReturns ==
    /\ InStep("review")
    /\ \E outcome \in {"ok", "error", "raise"} :
       \E metrics \in StepMetrics(outcome) :
          /\ run_results' =
                IF StepFails("teacher_review", outcome)
                THEN AfterStep(run_results, "teacher_review", outcome, metrics)
                ELSE Completed(AfterStep(run_results, "teacher_review", outcome,
                                         metrics))
          /\ run_faults' = run_faults \cup FaultOf(outcome)
          /\ run_calls' = Answered(run_calls, metrics)
    /\ r_pc' = "exit"
    /\ StepFrame

\* lines 344-346, 441-452, 510-520, 599-609 and 234-259: the run method
\* returns and its result is stored in the record
RunReturn ==
    /\ rs_pc = "in_run" /\ r_pc = "exit"
    /\ run_data' = [run_data EXCEPT
                      !.runs[cur_run] = [present |-> TRUE,
                                         status |-> run_results.status,
                                         error |-> run_results.error,
                                         context |-> run_results.context]]
    /\ active_runs' = active_runs \ {cur_run}
    /\ cur_run' = 0
    /\ r_pc' = "none"
    /\ run_results' = NoRunResults
    /\ run_faults' = {}
    /\ run_calls' = <<>>
    /\ IF cur_run = LastRun
       THEN rs_pc' = "finally" /\ next_run' = 0
       ELSE rs_pc' = "run" /\ next_run' = NextRunAfter(cur_run)
    /\ UNCHANGED <<run_starts, calls_in_flight>>
    /\ UNCHANGED <<suite_cfg, tci, hpi, emi, run_counter, shared_teacher_request, context_events,
                   test_suite_results, logged, suite_result, teacher_failed>>
    /\ UNCHANGED <<toolVars, vrVars>>

\* lines 264-268: the finally clause appends and logs the record
LogResult ==
    /\ rs_pc = "finally"
    /\ test_suite_results' = Append(test_suite_results, LogEntry(run_data))
    /\ logged' = Append(logged, LogEntry(run_data))
    /\ run_data' = NoRecord
    /\ GoTo(AfterCombo)
    /\ next_run' = 0
    /\ run_starts' = <<>>
    /\ UNCHANGED <<suite_cfg, run_counter, shared_teacher_request, context_events, suite_result,
                   teacher_failed>>
    /\ UNCHANGED <<cur_run, r_pc, run_results, run_faults, run_calls, active_runs,
                   calls_in_flight>>
    /\ UNCHANGED <<toolVars, vrVars>>

\* lines 270-284: the loops are over, the summary is built and returned
SuiteFinish ==
    /\ rs_pc = "case" /\ tci > suite_cfg.tcs
    /\ suite_result' = CreateAnalysisSummary(run_counter, test_suite_results)
    /\ rs_pc' = "done"
    /\ UNCHANGED <<suite_cfg, tci, hpi, emi, run_counter, shared_teacher_request, context_events,
                   run_data, test_suite_results, logged, teacher_failed>>
    /\ UNCHANGED <<toolVars, vrVars, runVars>>

NextSuite ==
    \/ SuiteLoadFails
    \/ SuiteConfigError
    \/ CloudInitFails
    \/ SuiteBegin
    \/ IssueModelCall
    \/ TeacherRequestError
    \/ TeacherRequestCrashes
    \/ TeacherRequestOk
    \/ EdgeInitFails
    \/ EdgeInitOk
    \/ ParamsLookupRaises
    \/ RunStart
    \/ GenerateQuestionReturns
    \/ StudentAnswerReturns
    \/ BaselineEvaluationReturns
    \/ MultistageValidationReturns
    \/ ConstraintEnforcement
    \/ TeacherReviewReturns
    \/ RunReturn
    \/ LogResult
    \/ SuiteFinish

----------------------------------------------------------------------------
(* ConstraintEnforcer.enforce_constraints.  A content is a few words       *)
(* followed by filler words, in braces or not.  A constraints dictionary   *)
(* is the set of keys it has and the value of each present key.            *)

\* the words a content may start with; "lorem" is the filler word
Vocabulary == {"War", "rainforests", "re-read", "peace"}

Fillers == {0, 9, 59}

Contents ==
    { [words |-> w, filler |-> n, braced |-> b] :
        w \in UNION { [1..k -> Vocabulary] : k \in 0..2 },
        n \in Fillers, b \in BOOLEAN }

Keywords == {"war", "peace", "read"}

KeywordLists == UNION { [1..k -> Keywords] : k \in 0..2 }

Topics == {"", "War", "rain forest ecology", "rain forest ecology economy"}

Formats == {"json", "JSON", "text"}

ConstraintKeys ==
    {"minWords", "maxWords", "prohibitedKeywords", "requiredTopic", "format"}

\* the value of an absent key is fixed, so that a dictionary is one record
ConstraintSpecs ==
    { c \in [keys : SUBSET ConstraintKeys, minWords : {5, 50},
             maxWords : {2, 20}, prohibitedKeywords : KeywordLists,
             requiredTopic : Topics, format : Formats] :
        /\ "minWords" \notin c.keys => c.minWords = 5
        /\ "maxWords" \notin c.keys => c.maxWords = 2
        /\ "prohibitedKeywords" \notin c.keys => c.prohibitedKeywords = <<>>
        /\ "requiredTopic" \notin c.keys => c.requiredTopic = ""
        /\ "format" \notin c.keys => c.format = "json" }

\* str.lower() on the words, keywords, topics and formats of the model
LowerCase(w) ==
    CASE w = "War" -> "war" [] w = "JSON" -> "json" [] OTHER -> w

\* re.findall(r'\b\w+\b', w) for one word
WordTokens(w) ==
    CASE w = "re-read" -> <<"re", "read">>
      [] w = "" -> <<>>
      [] w = "rain forest ecology" -> <<"rain", "forest", "ecology">>
      [] w = "rain forest ecology economy" -> <<"rain", "forest", "ecology", "economy">>
      [] OTHER -> <<w>>

RECURSIVE TokensOf(_)
TokensOf(words) ==
    IF words = <<>> THEN <<>>
    ELSE WordTokens(words[1]) \o TokensOf(Tail(words))

\* _count_words(content)
CountWords(c) == Len(TokensOf(c.words)) + c.filler

\* _contains_keyword(content, keyword): a whole-word match that ignores case
ContainsKeyword(c, keyword) ==
    LET tokens == TokensOf(c.words)
    IN  \/ \E i \in 1..Len(tokens) : LowerCase(tokens[i]) = LowerCase(keyword)
        \/ c.filler > 0 /\ LowerCase(keyword) = "lorem"

\* keyword in text_lower, for one word of the text
IsSubstring(keyword, word) ==
    \/ keyword = word
    \/ <<keyword, word>> \in {<<"rain", "rainforests">>, <<"forest", "rainforests">>,
                              <<"read", "re-read">>, <<"re", "re-read">>}

\* keyword in text_lower
InTextLower(c, keyword) ==
    \/ \E i \in 1..Len(c.words) : IsSubstring(keyword, LowerCase(c.words[i]))
    \/ c.filler > 0 /\ IsSubstring(keyword, "lorem")

\* _topic_is_present(content, topic)
TopicIsPresent(c, topic) ==
    LET keywords == WordTokens(LowerCase(topic))
        matched == Cardinality({i \in 1..Len(keywords) : InTextLower(c, keywords[i])})
        half == Len(keywords) \div 2
        threshold == IF half > 1 THEN half ELSE 1
    IN  matched >= threshold

\* content.strip().startswith('{') and content.strip().endswith('}')
LooksLikeJson(c) == c.braced

NewEnforcement == [passed |-> TRUE, violations |-> <<>>]

\* mutant: a violation is appended and passed is left as it was
AddViolationKeepsPassed(result, violation) ==
    [result EXCEPT !.violations = Append(@, violation)]

\* enforcement_result["passed"] = False; enforcement_result["violations"].append(...)
AddViolation(result, violation) ==
    [passed |-> FALSE, violations |-> Append(result.violations, violation)]

\* lines 49-66
CheckWordCount(result, c, cons) ==
    IF "minWords" \in cons.keys \/ "maxWords" \in cons.keys
    THEN LET word_count == CountWords(c)
             below == "minWords" \in cons.keys /\ word_count < cons.minWords
             above == "maxWords" \in cons.keys /\ word_count > cons.maxWords
             r1 == IF below
                   THEN AddViolation(result, <<"below minimum", word_count, cons.minWords>>)
                   ELSE result
         IN  IF above
             THEN AddViolation(r1, <<"exceeds maximum", word_count, cons.maxWords>>)
             ELSE r1
    ELSE result

\* the loop over prohibited_keywords from position i on
RECURSIVE CheckKeywordsFrom(_, _, _, _)
CheckKeywordsFrom(result, c, keywords, i) ==
    IF i > Len(keywords) THEN result
    ELSE CheckKeywordsFrom(
             IF ContainsKeyword(c, keywords[i])
             THEN AddViolation(result, <<"prohibited keyword", keywords[i]>>)
             ELSE result,
             c, keywords, i + 1)

\* mutant: the loop is left at the first keyword found
RECURSIVE CheckKeywordsUntilFound(_, _, _, _)
CheckKeywordsUntilFound(result, c, keywords, i) ==
    IF i > Len(keywords) THEN result
    ELSE IF ContainsKeyword(c, keywords[i])
         THEN AddViolation(result, <<"prohibited keyword", keywords[i]>>)
         ELSE CheckKeywordsUntilFound(result, c, keywords, i + 1)

\* mutant: the keyword loop stops at the first keyword found
CheckProhibitedFirstOnly(result, c, cons) ==
    IF "prohibitedKeywords" \in cons.keys
    THEN CheckKeywordsUntilFound(result, c, cons.prohibitedKeywords, 1)
    ELSE result

\* lines 69-78
CheckProhibited(result, c, cons) ==
    IF "prohibitedKeywords" \in cons.keys
    THEN CheckKeywordsFrom(result, c, cons.prohibitedKeywords, 1)
    ELSE result

\* lines 81-88
CheckTopic(result, c, cons) ==
    IF "requiredTopic" \in cons.keys /\ ~TopicIsPresent(c, cons.requiredTopic)
    THEN AddViolation(result, <<"required topic", cons.requiredTopic>>)
    ELSE result

\* lines 91-100
CheckFormat(result, c, cons) ==
    IF /\ "format" \in cons.keys
       /\ LowerCase(cons.format) = "json"
       /\ ~LooksLikeJson(c)
    THEN AddViolation(result, <<"JSON format">>)
    ELSE result

\* enforce_constraints(content, constraints)
EnforceConstraintsResult(c, cons) ==
    CheckFormat(
        CheckTopic(
            CheckProhibited(
                CheckWordCount(NewEnforcement, c, cons), c, cons), c, cons), c, cons)

CeInit ==
    /\ ce_content \in Contents
    /\ constraints \in ConstraintSpecs
    /\ ce_pc = "idle"
    /\ enforcement_result = NewEnforcement

CeIdle ==
    /\ ce_content = [words |-> <<>>, filler |-> 0, braced |-> FALSE]
    /\ constraints = [keys |-> {}, minWords |-> 5, maxWords |-> 2,
                      prohibitedKeywords |-> <<>>, requiredTopic |-> "",
                      format |-> "json"]
    /\ ce_pc = "absent"
    /\ enforcement_result = NewEnforcement

EnforceConstraints ==
    /\ ce_pc = "idle"
    /\ enforcement_result' = EnforceConstraintsResult(ce_content, constraints)
    /\ ce_pc' = "returned"
    /\ UNCHANGED <<ce_content, constraints, vrVars, suiteVars, runVars, parseVars,
                   mergeVars, mcVars, execVars>>

NextConstraints == EnforceConstraints

----------------------------------------------------------------------------
(* merge_metrics called on a list of metrics *)

MergeInit ==
    /\ merge_list \in MetricsLists
    /\ merge_pc = "idle"
    /\ merged = NoMetrics

MergeIdle ==
    /\ merge_list = <<>>
    /\ merge_pc = "absent"
    /\ merged = NoMetrics

MergeMetricsCall ==
    /\ merge_pc = "idle"
    /\ merged' = merge_metrics(merge_list)
    /\ merge_pc' = "returned"
    /\ UNCHANGED <<merge_list, vrVars, suiteVars, runVars, parseVars, ceVars,
                   mcVars, execVars>>

NextMerge == MergeMetricsCall

----------------------------------------------------------------------------
(* One MetricsCollector: start_timer, stop_timer, record_tokens,           *)
(* get_results and reset called in any order, while time passes.           *)

\* the clock stops at MaxClock milliseconds
MaxClock == 3

NoTime == -1

TokenCounts == {0, 1, 2}

NoCall == [op |-> "none", elapsed |-> 0, results |-> NoMetrics, raised |-> FALSE]

Returned(op, elapsed, results) ==
    [op |-> op, elapsed |-> elapsed, results |-> results, raised |-> FALSE]

Raised(op) == [op |-> op, elapsed |-> 0, results |-> NoMetrics, raised |-> TRUE]

\* __init__
McInit ==
    /\ now = 0
    /\ start_time = NoTime
    /\ metrics_data = NoMetrics
    /\ timer_started = FALSE
    /\ mc_last = NoCall

\* no collector is used on its own
McIdle ==
    /\ now = 0
    /\ start_time = NoTime
    /\ metrics_data = NoMetrics
    /\ timer_started = FALSE
    /\ mc_last = [NoCall EXCEPT !.op = "absent"]

McOther == <<vrVars, suiteVars, runVars, parseVars, ceVars, mergeVars, execVars>>

\* a millisecond passes
Tick ==
    /\ mc_last.op # "absent"
    /\ now < MaxClock
    /\ now' = now + 1
    /\ UNCHANGED <<start_time, metrics_data, timer_started, mc_last, McOther>>

StartTimer ==
    /\ mc_last.op # "absent"
    /\ start_time' = now
    /\ timer_started' = TRUE
    /\ mc_last' = Returned("start_timer", 0, NoMetrics)
    /\ UNCHANGED <<now, metrics_data, McOther>>

\* mutant: stop_timer takes the timer for started
TimerIsUnsetNever(time) == FALSE

\* self.start_time is None
TimerIsUnset(time) == time = NoTime

\* stop_timer at the given time: what it returns and the metrics it leaves
StopAt(data, start, time) ==
    IF TimerIsUnset(start)
    THEN [elapsed |-> 0, data |-> data]
    ELSE LET elapsed_ms == time - start
         IN  [elapsed |-> elapsed_ms,
              data |-> [data EXCEPT !.keys = @ \cup {"latency_ms"},
                                    !.latency_ms = elapsed_ms]]

StopTimer ==
    /\ mc_last.op # "absent"
    /\ LET stop == StopAt(metrics_data, start_time, now)
       IN  /\ metrics_data' = stop.data
           /\ mc_last' = Returned("stop_timer", stop.elapsed, NoMetrics)
    /\ UNCHANGED <<now, start_time, timer_started, McOther>>

\* lines 62-64
WithTokens(data, input_tokens, output_tokens) ==
    [data EXCEPT !.keys = @ \cup {"input_tokens", "output_tokens", "total_tokens"},
                 !.input_tokens = input_tokens,
                 !.output_tokens = output_tokens,
                 !.total_tokens = input_tokens + output_tokens]

\* record_tokens(input_tokens, output_tokens); the division of line 68
\* raises ZeroDivisionError when the recorded latency is 0
RecordInto(metrics, input_tokens, output_tokens) ==
    LET data == WithTokens(metrics, input_tokens, output_tokens)
    IN  IF "latency_ms" \in data.keys /\ output_tokens > 0
        THEN IF data.latency_ms = 0
             THEN [raised |-> TRUE, data |-> data]
             ELSE [raised |-> FALSE,
                   data |-> [data EXCEPT
                               !.keys = @ \cup {"tokens_per_second"},
                               !.tokens_per_second =
                                   TokensPerSecond(output_tokens, data.latency_ms)]]
        ELSE [raised |-> FALSE, data |-> data]

RecordTokens ==
    /\ mc_last.op # "absent"
    /\ \E input_tokens \in TokenCounts, output_tokens \in TokenCounts :
         LET rec == RecordInto(metrics_data, input_tokens, output_tokens)
         IN  /\ metrics_data' = rec.data
             /\ mc_last' = IF rec.raised THEN Raised("record_tokens")
                           ELSE Returned("record_tokens", 0, NoMetrics)
    /\ UNCHANGED <<now, start_time, timer_started, McOther>>

GetResults ==
    /\ mc_last.op # "absent"
    /\ mc_last' = Returned("get_results", 0, metrics_data)
    /\ UNCHANGED <<now, start_time, metrics_data, timer_started, McOther>>

Reset ==
    /\ mc_last.op # "absent"
    /\ start_time' = NoTime
    /\ metrics_data' = NoMetrics
    /\ timer_started' = FALSE
    /\ mc_last' = Returned("reset", 0, NoMetrics)
    /\ UNCHANGED <<now, McOther>>

NextCollector ==
    \/ Tick
    \/ StartTimer
    \/ StopTimer
    \/ RecordTokens
    \/ GetResults
    \/ Reset

----------------------------------------------------------------------------
(* LMStudioRunner.execute (OllamaRunner.execute has the same calls): model  *)
(* calls made one after another through one runner, all on the shared      *)
(* MetricsCollector.  measured tells whether the call got as far as its    *)
(* token counts.                                                           *)

MaxCalls == 2

NoExecResult ==
    [error |-> FALSE, measured |-> FALSE, input_tokens |-> 0,
     output_tokens |-> 0, metrics |-> NoMetrics]

ExecInit ==
    /\ exec_pc = "idle"
    /\ exec_calls = 0
    /\ exec_result = NoExecResult

ExecIdle ==
    /\ exec_pc = "absent"
    /\ exec_calls = 0
    /\ exec_result = NoExecResult

ExecOther == <<vrVars, suiteVars, runVars, parseVars, ceVars, mergeVars>>

\* line 139: start_timer on the collector as the earlier calls left it,
\* then the request is in flight
ExecuteStart ==
    /\ exec_pc = "idle"
    /\ exec_calls < MaxCalls
    /\ start_time' = now
    /\ timer_started' = TRUE
    /\ mc_last' = Returned("start_timer", 0, NoMetrics)
    /\ exec_pc' = "requesting"
    /\ UNCHANGED <<now, metrics_data, exec_calls, exec_result, ExecOther>>

\* lines 169-182: the except branch stops the timer when start_time is
\* set and returns the collector's metrics with the error
ErrorResult(data, measured, input_tokens, output_tokens) ==
    LET stop == StopAt(data, start_time, now)
    IN  [error |-> TRUE, measured |-> measured, input_tokens |-> input_tokens,
         output_tokens |-> output_tokens, metrics |-> stop.data]

\* lines 142-167: the request answers with its token counts
ExecuteReturns ==
    /\ exec_pc = "requesting"
    /\ \E input_tokens \in TokenCounts, output_tokens \in TokenCounts :
         LET stop == StopAt(metrics_data, start_time, now)
             rec == RecordInto(stop.data, input_tokens, output_tokens)
         IN  /\ exec_result' =
                   IF rec.raised
                   THEN ErrorResult(rec.data, TRUE, input_tokens, output_tokens)
                   ELSE [error |-> FALSE, measured |-> TRUE,
                         input_tokens |-> input_tokens,
                         output_tokens |-> output_tokens, metrics |-> rec.data]
             /\ metrics_data' = exec_result'.metrics
             /\ mc_last' = Returned("get_results", 0, exec_result'.metrics)
    /\ exec_pc' = "idle"
    /\ exec_calls' = exec_calls + 1
    /\ UNCHANGED <<now, start_time, timer_started, ExecOther>>

\* lines 142-143, 169-182: the request raises
ExecuteFails ==
    /\ exec_pc = "requesting"
    /\ exec_result' = ErrorResult(metrics_data, FALSE, 0, 0)
    /\ metrics_data' = exec_result'.metrics
    /\ mc_last' = Returned("get_results", 0, exec_result'.metrics)
    /\ exec_pc' = "idle"
    /\ exec_calls' = exec_calls + 1
    /\ UNCHANGED <<now, start_time, timer_started, ExecOther>>

NextRunner ==
    \/ Tick
    \/ ExecuteStart
    \/ ExecuteReturns
    \/ ExecuteFails

----------------------------------------------------------------------------
(* _parse_json_from_llm_output called on a raw text *)

ParseInit ==
    /\ raw_text \in RawTexts
    /\ parse_pc = "idle"
    /\ parse_returned = NoJudgment

ParseIdle ==
    /\ raw_text = EmptyText
    /\ parse_pc = "absent"
    /\ parse_returned = NoJudgment

ParseText ==
    /\ parse_pc = "idle"
    /\ LET out == ParseRawText(raw_text)
       IN  /\ parse_pc' = IF out.raised THEN "raised" ELSE "returned"
           /\ parse_returned' = out.data
    /\ UNCHANGED <<raw_text, vrVars, suiteVars, runVars, ceVars, mergeVars, mcVars,
                   execVars>>

NextParse == ParseText

----------------------------------------------------------------------------
\* validate_result is entered with some sequence; no suite is running.
InitValidate ==
    /\ VrInit
    /\ SuiteIdle
    /\ ParseIdle
    /\ CeIdle
    /\ MergeIdle
    /\ McIdle
    /\ ExecIdle

SpecValidate == InitValidate /\ [][NextValidate]_vars

\* validate_result is entered with a sequence of at most MaxMetricStages
\* stages, an executor that attaches metrics to its results, and the
\* shared MetricsCollector in a state that earlier calls left.
MaxMetricStages == 2

MetricStageConfigs == {c \in StageConfigs : c.scoringImpact # 4}

MetricSequences ==
    { WithIds(cfgs) :
        cfgs \in UNION { [1..n -> MetricStageConfigs] : n \in 0..MaxMetricStages } }

SharedCollectorStates ==
    { [start_time |-> NoTime, metrics_data |-> NoMetrics, started |-> FALSE],
      [start_time |-> 0, metrics_data |-> NoMetrics, started |-> TRUE],
      [start_time |-> 0, started |-> TRUE,
       metrics_data |-> Metrics(MetricFields, 100, 10, 50, 60, 50000)] }

InitValidateMetrics ==
    /\ validation_sequence \in MetricSequences
    /\ vr_pc = "idle"
    /\ sorted_stages = <<>>
    /\ stage_index = 0
    /\ validation_result = NoResult
    /\ vr_returned = NoResult
    /\ rendered = <<>>
    /\ executed = <<>>
    /\ vr_failure = "none"
    /\ all_stage_metrics = <<>>
    /\ llm_s_metrics = StageMetricsChoices
    /\ SuiteIdle
    /\ ParseIdle
    /\ CeIdle
    /\ MergeIdle
    /\ ExecIdle
    /\ now = 0
    /\ mc_last = [NoCall EXCEPT !.op = "absent"]
    /\ \E c \in SharedCollectorStates :
          /\ start_time = c.start_time
          /\ metrics_data = c.metrics_data
          /\ timer_started = c.started

SpecValidateMetrics == InitValidateMetrics /\ [][NextValidate]_vars

\* run_test_suite is entered with some configuration; no validation is running.
InitSuite ==
    /\ VrIdle
    /\ SuiteInit
    /\ ParseIdle
    /\ CeIdle
    /\ MergeIdle
    /\ McIdle
    /\ ExecIdle

SpecSuite == InitSuite /\ [][NextSuite]_vars

\* The program: a call of validate_result or a call of run_test_suite.
InitProgram ==
    \/ InitValidate
    \/ InitSuite

NextProgram ==
    \/ NextValidate
    \/ NextSuite

SpecProgram == InitProgram /\ [][NextProgram]_vars

\* _parse_json_from_llm_output is entered with some raw text.
InitParse ==
    /\ VrIdle
    /\ SuiteIdle
    /\ ParseInit
    /\ CeIdle
    /\ MergeIdle
    /\ McIdle
    /\ ExecIdle

SpecParse == InitParse /\ [][NextParse]_vars

\* enforce_constraints is entered with some content and constraints.
InitConstraints ==
    /\ VrIdle
    /\ SuiteIdle
    /\ ParseIdle
    /\ CeInit
    /\ MergeIdle
    /\ McIdle
    /\ ExecIdle

SpecConstraints == InitConstraints /\ [][NextConstraints]_vars

\* merge_metrics is entered with some list of metrics.
InitMerge ==
    /\ VrIdle
    /\ SuiteIdle
    /\ ParseIdle
    /\ CeIdle
    /\ MergeInit
    /\ McIdle
    /\ ExecIdle

SpecMerge == InitMerge /\ [][NextMerge]_vars

\* a MetricsCollector was constructed.
InitCollector ==
    /\ VrIdle
    /\ SuiteIdle
    /\ ParseIdle
    /\ CeIdle
    /\ MergeIdle
    /\ McInit
    /\ ExecIdle

SpecCollector == InitCollector /\ [][NextCollector]_vars

\* a runner was constructed on a fresh MetricsCollector.
InitRunner ==
    /\ VrIdle
    /\ SuiteIdle
    /\ ParseIdle
    /\ CeIdle
    /\ MergeIdle
    /\ McInit
    /\ ExecInit

SpecRunner == InitRunner /\ [][NextRunner]_vars

----------------------------------------------------------------------------
(* Claims about validate_result, checked under SpecValidate.  The claims   *)
(* read a stage's configuration from the declared sequence with the        *)
(* defaults the specification gives, not through the model's accessors.    *)

Declared(id) == validation_sequence[id]

DeclaredPriority(id) ==
    IF "priority" \in Declared(id).keys THEN Declared(id).priority ELSE 0

DeclaredImpact(id) ==
    IF "scoringImpact" \in Declared(id).keys THEN Declared(id).scoringImpact ELSE 0

DeclaredAbort(id) ==
    IF "abortOnFailure" \in Declared(id).keys
    THEN Declared(id).abortOnFailure ELSE TRUE

\* C1: the executor is invoked on the stages in descending priority order
\* (a missing priority counts as 0), and stages of equal priority are
\* invoked in their declaration order.
C1_ExecutionOrder ==
    \A i, j \in 1..Len(executed) :
        i < j =>
            \/ DeclaredPriority(executed[i]) > DeclaredPriority(executed[j])
            \/ /\ DeclaredPriority(executed[i]) = DeclaredPriority(executed[j])
               /\ executed[i] < executed[j]

\* C1 witness: stages declared A(1), B(5), C(1) were all executed, in the
\* order B, A, C.
C1_Witness ==
    /\ Len(validation_sequence) = 3
    /\ DeclaredPriority(1) = 1 /\ DeclaredPriority(2) = 5 /\ DeclaredPriority(3) = 1
    /\ executed = <<2, 1, 3>>
    /\ vr_pc = "returned"

\* a recorded stage result that failed while its stage aborts on failure
AbortingFailure(result) ==
    \E k \in 1..Len(result.stageResults) :
        /\ ~result.stageResults[k].passed
        /\ DeclaredAbort(result.stageResults[k].stageId)

\* C2: once a stage has failed with abort-on-failure true (the default), no
\* later stage is rendered or executed, and the returned result has
\* isValid = false.
C2_AbortStopsSequence ==
    /\ [][AbortingFailure(validation_result)
            => (rendered' = rendered /\ executed' = executed)]_vars
    /\ [](vr_pc = "returned" /\ AbortingFailure(vr_returned)
            => ~vr_returned.isValid)

\* C2 witness: priorities [10, 5], the priority-10 stage failed and the
\* priority-5 stage never executed.
C2_Witness ==
    /\ Len(validation_sequence) = 2
    /\ DeclaredPriority(1) = 10 /\ DeclaredPriority(2) = 5
    /\ vr_pc = "returned"
    /\ AbortingFailure(vr_returned)
    /\ executed = <<1>> /\ rendered = <<1>>
    /\ ~vr_returned.isValid

RECURSIVE WeightedPassedSum(_)
WeightedPassedSum(results) ==
    IF results = <<>> THEN 0
    ELSE LET r == Head(results)
         IN  (IF r.passed THEN r.score * DeclaredImpact(r.stageId) ELSE 0)
             + WeightedPassedSum(Tail(results))

\* C3: the returned finalScore is the sum over the executed stages that
\* passed of score x scoringImpact (missing impact 0); failed stages add 0;
\* the sum is neither clamped nor rescaled.
C3_FinalScore ==
    vr_pc = "returned" =>
        /\ vr_returned.finalScore = WeightedPassedSum(vr_returned.stageResults)
        /\ [k \in 1..Len(vr_returned.stageResults) |->
               vr_returned.stageResults[k].stageId] = executed

\* C3 witness: two passing stages, impact 0.6 with score 1.0 and impact 0.4
\* with score 0.5, give 0.8.
C3_Witness ==
    /\ vr_pc = "returned"
    /\ Len(vr_returned.stageResults) = 2
    /\ \A k \in 1..2 : vr_returned.stageResults[k].passed
    /\ \E a, b \in 1..2 :
          /\ a # b
          /\ DeclaredImpact(vr_returned.stageResults[a].stageId) = 6
          /\ vr_returned.stageResults[a].score = 10
          /\ DeclaredImpact(vr_returned.stageResults[b].stageId) = 4
          /\ vr_returned.stageResults[b].score = 5
    /\ vr_returned.finalScore = 80

\* C4: with an empty sequence validate_result returns isValid = true,
\* finalScore = 0.0, no stage results and empty feedback, and neither
\* renders a template nor invokes the executor.
C4_EmptySequence ==
    (validation_sequence = <<>> /\ vr_pc # "idle") =>
        /\ vr_pc = "returned"
        /\ vr_returned.isValid
        /\ vr_returned.finalScore = 0
        /\ vr_returned.stageResults = <<>>
        /\ vr_returned.aggregateFeedback = <<>>
        /\ ~vr_returned.none
        /\ rendered = <<>> /\ executed = <<>>

\* C4 witness: the call with the empty sequence has returned.
C4_Witness == validation_sequence = <<>> /\ vr_pc = "returned"

----------------------------------------------------------------------------
(* Claims about run_test_suite and the run methods, checked under          *)
(* SpecSuite.                                                              *)

AtRunExit == rs_pc = "in_run" /\ r_pc = "exit"

Combinations ==
    { <<t, h, e>> : t \in 1..suite_cfg.tcs, h \in 1..suite_cfg.hps,
                    e \in 1..suite_cfg.ems }

RecordsOf(results, combo) == { i \in 1..Len(results) : results[i].combo = combo }

\* C6: a run in which a step raised or reported an error is recorded as
\* 'failed' with an error message, and it prevents neither the later runs
\* of its combination nor the later combinations and test cases.
C6_FailedRunRecordedAndIsolated ==
    /\ (AtRunExit /\ run_faults # {})
          => (run_results.status = "failed" /\ run_results.error)
    /\ (rs_pc = "finally" /\ run_data.error = "none")
          => \A k \in RunNumbers : run_data.runs[k].present
    /\ rs_pc = "done"
          => \A c \in Combinations :
                shared_teacher_request[c[1]] # NoContext
                    => RecordsOf(logged, c) # {}

\* C7: the runs of a combination start in the order 1, 2, 3, 4, each after
\* the previous one returned; at most one run and at most one
\* model-execution call are in progress.
C7_RunsSequential ==
    /\ \A i \in 1..Len(run_starts) : run_starts[i] = i
    /\ Cardinality(active_runs) <= 1
    /\ calls_in_flight <= 1
    /\ \A k \in active_runs :
          /\ \A j \in 1..(k - 1) : run_data.runs[j].present
          /\ \A j \in k..4 : ~run_data.runs[j].present
    /\ (calls_in_flight = 1 /\ rs_pc = "in_run") => active_runs = {cur_run}

\* C7 witness: Run 4 is in progress with a model call in flight, after
\* Runs 1, 2, 3 started in that order and returned.
C7_Witness ==
    /\ run_starts = <<1, 2, 3, 4>>
    /\ active_runs = {4}
    /\ calls_in_flight = 1
    /\ \A j \in 1..3 : run_data.runs[j].present

\* C8: for every combination of the suite exactly one record is appended
\* to the results and passed to the logger, whatever fails.
C8_OneRecordPerCombination ==
    /\ \A c \in Combinations :
          /\ Cardinality(RecordsOf(test_suite_results, c)) <= 1
          /\ Cardinality(RecordsOf(logged, c)) <= 1
    /\ rs_pc = "done"
          => \A c \in Combinations :
                /\ Cardinality(RecordsOf(test_suite_results, c)) = 1
                /\ Cardinality(RecordsOf(logged, c)) = 1

\* C9: a logged record has a terminal status, completed or an explicit
\* failure; it is never still the status it was created with.
C9_LoggedStatusTerminal ==
    \A i \in 1..Len(logged) :
        /\ logged[i].status # "initialized"
        /\ logged[i].status \in {"completed", "failed"}

\* C10: a run in which a model-execution call reported an error ends with
\* status 'failed' and an error message, never 'completed'.
C10_ReportedErrorFailsRun ==
    (AtRunExit /\ "reported" \in run_faults)
        => /\ run_results.status = "failed"
           /\ run_results.error
           /\ run_results.status # "completed"

StepDone(step) == \E i \in 1..Len(run_results.steps) : run_results.steps[i] = step

\* C11: a negative content outcome (validation invalid, evaluation not
\* passed, constraints violated) never fails a run: unless a step raised,
\* a run that reached its constraint check ends 'completed' without an
\* error, and the outcome is carried by final_decision.
C11_ContentOutcomeIsData ==
    (AtRunExit /\ StepDone("constraint_enforcement") /\ "raised" \notin run_faults)
        => /\ run_results.status = "completed"
           /\ ~run_results.error
           /\ run_results.decision.present
           /\ run_results.decision.passed = run_results.judged
           /\ run_results.decision.passed_constraints = run_results.cpass

\* C11 witness: a guided run ends 'completed' although its validation
\* result is invalid and its constraint check reports violations.
C11_Witness ==
    /\ AtRunExit /\ IsGuided(cur_run)
    /\ ~run_results.judged /\ ~run_results.cpass
    /\ run_results.status = "completed"
    /\ ~run_results.decision.passed /\ ~run_results.decision.passed_constraints

\* C12: in a guided run (Run 2, Run 4) that reached its final decision the
\* reviewer step was executed exactly when the validation result is
\* invalid or the constraint check did not pass.
C12_ReviewerEscalation ==
    (AtRunExit /\ IsGuided(cur_run) /\ run_results.status = "completed")
        => (StepDone("teacher_review")
               <=> (~run_results.judged \/ ~run_results.cpass))

TestCases == 1..suite_cfg.tcs

InCombination == rs_pc \in {"combo", "run", "in_run", "finally"}

C13_GeneratedOnce ==
    /\ \A t \in TestCases :
          /\ context_events[t].generated <= 1
          /\ context_events[t].written <= 1
          /\ shared_teacher_request[t] # NoContext <=> context_events[t].written = 1
    /\ InCombination
          => /\ shared_teacher_request[tci] # NoContext
             /\ context_events[tci] = [generated |-> 1, written |-> 1]
    /\ rs_pc = "done" => \A t \in TestCases : context_events[t].generated = 1

C13_NeverReplaced ==
    \A t \in TestCases :
        shared_teacher_request[t] # NoContext
            => shared_teacher_request'[t] = shared_teacher_request[t]

\* C13: the shared teacher request of a test case is generated exactly
\* once, before any run of the test case starts; it is written into the
\* test case once and no step afterwards generates it again or changes it.
C13_SharedContextOnce == []C13_GeneratedOnce /\ [][C13_NeverReplaced]_vars

\* C13 witness: Run 2 of the second combination of a test case is in
\* progress and the test case still has the one context generated for it.
C13_Witness ==
    /\ rs_pc = "in_run" /\ cur_run = 2
    /\ tci = 1 /\ run_counter = 2
    /\ shared_teacher_request[1] = "generated"
    /\ context_events[1] = [generated |-> 1, written |-> 1]

\* C14: every run of a combination works with the topic and constraints of
\* the shared teacher request of its test case; the baseline runs and the
\* guided runs use the same ones.
C14_TopicParity ==
    /\ AtRunExit => run_results.context = shared_teacher_request[tci]
    /\ rs_pc = "finally"
          => \A j, k \in RunNumbers :
                (run_data.runs[j].present /\ run_data.runs[k].present)
                    => run_data.runs[j].context = run_data.runs[k].context

\* the metrics produced by the steps a run executed, in order
ProducedMetrics(calls) == [i \in 1..Len(calls) |-> calls[i].metrics]

\* C15: when a run method returns, total_metrics is merge_metrics of the
\* metrics of every step the run executed, each taken once, up to and
\* including the failing step when the run failed.
C15_TotalMetrics ==
    AtRunExit
        => run_results.total_metrics
              = MergeMetrics(Truthy(ProducedMetrics(run_calls)))

\* a required part of the configuration is missing: the large-model id,
\* the edge-model ids, or the validation sequence of the guided runs
ConfigLacks ==
    \/ ~suite_cfg.cloud
    \/ suite_cfg.ems = 0
    \/ ~suite_cfg.sequence_selected

\* C17: with such a configuration run_test_suite returns a failed result;
\* no run is executed and no record is logged.
C17_ConfigErrorIsFatal ==
    ConfigLacks
        => /\ rs_pc \notin {"run", "in_run", "finally"}
           /\ run_starts = <<>>
           /\ logged = <<>>
           /\ rs_pc \in {"done", "failed"} => suite_result.status = "failed"

LoggedWhere(Test(_)) == { i \in 1..Len(logged) : Test(logged[i]) }

AllRunsCompleted(entry) == entry.runs_completed

FailedOrInError(entry) == entry.runs_failed \/ entry.error # "none"

\* C18: in the returned summary successful_runs is the number of logged
\* records whose four runs completed, error_count the number of logged
\* records with a failed run or a record-level error, and every logged
\* record is counted in exactly one of the two.
C18_SummaryCounts ==
    rs_pc = "done"
        => /\ suite_result.successful_runs
                 = Cardinality(LoggedWhere(AllRunsCompleted))
           /\ suite_result.error_count
                 = Cardinality(LoggedWhere(FailedOrInError))
           /\ suite_result.successful_runs + suite_result.error_count
                 = Len(logged)

\* C19 (as stated): Run k+1 is started only if Run k ended 'completed'.
C19_RunNeedsPriorCompleted ==
    \A k \in 1..3 :
        (k + 1) \in active_runs => run_data.runs[k].status = "completed"

\* C19 (amended): Run k+1 is started only after Run k has returned, with
\* status 'completed' or 'failed'; a failed Run k does not stop Run k+1.
C19_RunNeedsPriorReturned ==
    \A k \in 1..3 :
        (k + 1) \in active_runs
            => /\ run_data.runs[k].present
               /\ run_data.runs[k].status \in {"completed", "failed"}
               /\ k \notin active_runs

\* C19 witness: Run 3 is in progress after Run 2 failed.
C19_Witness ==
    /\ active_runs = {3}
    /\ run_data.runs[2].status = "failed"
    /\ run_data.runs[1].status = "completed"

----------------------------------------------------------------------------
(* Claims about both entry points, checked under SpecProgram.              *)

NoRepeats(seq) == \A i, j \in 1..Len(seq) : i # j => seq[i] # seq[j]

CalledSteps == [i \in 1..Len(run_calls) |-> run_calls[i].step]

LoggedCombos == [i \in 1..Len(logged) |-> logged[i].combo]

\* C16: nothing is retried.  In a validate_result call the executor is
\* called at most once per stage; in a run each step calls its model at
\* most once; no run is started twice in a combination, and a combination
\* that was logged is not executed again.
C16_NoRetry ==
    /\ NoRepeats(executed)
    /\ NoRepeats(CalledSteps)
    /\ NoRepeats(run_starts)
    /\ NoRepeats(LoggedCombos)
    /\ rs_pc \in {"run", "in_run", "finally"}
          => \A i \in 1..Len(logged) : logged[i].combo # run_data.combo

\* C16 witness: Run 1 of a combination failed, the three other runs were
\* each started once after it, and the combination is about to be logged.
C16_Witness ==
    /\ rs_pc = "finally"
    /\ run_data.runs[1].status = "failed"
    /\ run_starts = <<1, 2, 3, 4>>
    /\ Len(logged) >= 1

----------------------------------------------------------------------------
(* Claims about _parse_json_from_llm_output, checked under SpecParse.  The *)
(* claims read the values a text carries from the text itself.             *)

\* a plain JSON object, a fenced block with any prose around it, or a list
\* of bullet lines
WellFormed(raw) ==
    \/ raw.layout \in {"plain", "bullets"} /\ raw.before = "" /\ raw.after = ""
    \/ raw.layout \in {"fence_json", "fence"}

Carried(raw) ==
    [passed |-> raw.passed, score |-> raw.score, feedback |-> raw.feedback]

\* C20: for every raw text that is a plain JSON object, a fenced block
\* (labeled json or unlabeled) with arbitrary prose around it, or a list of
\* "- key: value" bullet lines, carrying passed, score and feedback, the
\* function returns, with passed that boolean, score that number and
\* feedback that string.
C20_WellFormedTextIsExtracted ==
    parse_pc \in {"returned", "raised"} /\ WellFormed(raw_text)
        => /\ parse_pc = "returned"
           /\ parse_returned = Carried(raw_text)

\* the texts that are one JSON object, and that object
IsObjectText(raw) ==
    /\ raw.layout = "parts"
    /\ Len(raw.parts) = 1
    /\ raw.parts[1].kind = "bare"
    /\ raw.parts[1].doc.json = "object"

TheObject(raw) == raw.parts[1].doc.obj

Parsed == parse_pc \in {"returned", "raised"}

IsBool(v) == v.t = "bool"
IsNumber(v) == v.t = "num"
IsString(v) == v.t = "str"

\* C21: the value of key valid is copied into key passed exactly when
\* valid is present and passed is absent; a present passed keeps its value
\* whatever valid is.
C21_ValidAliasesPassed ==
    Parsed /\ IsObjectText(raw_text) =>
        LET o == TheObject(raw_text)
            rest == /\ {"score", "feedback"} \subseteq o.keys
                    /\ IsNumber(o.score) /\ IsString(o.feedback)
        IN  /\ parse_pc = "returned" /\ "passed" \in o.keys
                => parse_returned.passed = o.passed.b
            /\ parse_pc = "returned" /\ "passed" \notin o.keys
                => "valid" \in o.keys /\ parse_returned.passed = o.valid.b
            /\ rest /\ "passed" \in o.keys /\ IsBool(o.passed)
                => parse_pc = "returned"
            /\ rest /\ "passed" \notin o.keys /\ "valid" \in o.keys /\ IsBool(o.valid)
                => parse_pc = "returned"

\* C21 witness: an object with valid and without passed was parsed, and
\* the judgment returned has the value of valid as passed.
C21_Witness ==
    /\ parse_pc = "returned"
    /\ IsObjectText(raw_text)
    /\ "valid" \in TheObject(raw_text).keys
    /\ "passed" \notin TheObject(raw_text).keys
    /\ parse_returned.passed = TheObject(raw_text).valid.b
    /\ parse_returned.passed

\* the keys an object has once valid stands in for an absent passed
KeysAfterAliasing(o) ==
    o.keys \cup (IF "valid" \in o.keys THEN {"passed"} ELSE {})

C23_TypeMismatchFails ==
    Parsed /\ IsObjectText(raw_text) =>
        LET o == TheObject(raw_text)
        IN  /\ {"passed", "score", "feedback"} \subseteq o.keys
            /\ (~IsBool(o.passed) \/ ~IsNumber(o.score) \/ ~IsString(o.feedback))
                => parse_pc = "raised"

\* The object each strategy of the chain yields in a text of parts, as a
\* sequence that is empty when the strategy yields none: 1 the whole text
\* is an object, 2 a fenced block labeled json holds an object, 3 an
\* unlabeled fenced block holds one, 4 the text ends with a bare object,
\* 5 the text has bullet lines.
ObjectsIn(ps, kind) ==
    {i \in 1..Len(ps) : ps[i].kind = kind /\ ps[i].doc.json = "object"}

Yield(ps, k) ==
    CASE k = 1 -> IF Len(ps) = 1 /\ ObjectsIn(ps, "bare") = {1}
                  THEN <<ps[1].doc.obj>> ELSE <<>>
      [] k = 2 -> IF ObjectsIn(ps, "labeled") # {}
                  THEN <<ps[Least(ObjectsIn(ps, "labeled"))].doc.obj>> ELSE <<>>
      [] k = 3 -> IF ObjectsIn(ps, "unlabeled") # {}
                  THEN <<ps[Least(ObjectsIn(ps, "unlabeled"))].doc.obj>> ELSE <<>>
      [] k = 4 -> IF Len(ps) \in ObjectsIn(ps, "bare")
                  THEN <<ps[Len(ps)].doc.obj>> ELSE <<>>
      [] k = 5 -> IF \E i \in 1..Len(ps) : ps[i].kind = "bullets"
                  THEN <<BulletJudgment>> ELSE <<>>

\* what the chain gives: the judgment built from the object of the first
\* strategy that yields one, a failure when none does
ChainResult(ps) ==
    LET ks == {k \in 1..5 : Yield(ps, k) # <<>>}
    IN  IF ks = {} THEN [raised |-> TRUE, data |-> NoJudgment]
        ELSE ParseJsonFromLlmOutput(
                 [form |-> "json", obj |-> Yield(ps, Least(ks))[1]])

\* the texts of parts in which every structure holds a JSON document and
\* no two structures of one kind occur
Unambiguous(ps) ==
    /\ \A i \in 1..Len(ps) : ps[i].doc.json # "garbage"
    /\ \A i, j \in 1..Len(ps) : i # j => ps[i].kind # ps[j].kind

\* C24: the strategies are tried in the order direct parse, labeled
\* fenced block, unlabeled fenced block, trailing object, bullet lines;
\* the judgment is built from the object of the first strategy that
\* yields one, also when that object is empty or lacks required keys; when
\* no strategy yields an object, and for an empty text, the function
\* raises.
C24_FirstStrategyWins ==
    /\ Parsed /\ raw_text.layout = "empty" => parse_pc = "raised"
    /\ Parsed /\ raw_text.layout = "parts" /\ Unambiguous(raw_text.parts)
         => LET expected == ChainResult(raw_text.parts)
            IN  /\ (parse_pc = "raised") = expected.raised
                /\ parse_returned = expected.data

----------------------------------------------------------------------------
(* Claims about enforce_constraints, checked under SpecConstraints.        *)

\* the violations of the rules of one kind, each rule decided on its own
MinWordsViolations ==
    IF "minWords" \in constraints.keys /\ CountWords(ce_content) < constraints.minWords
    THEN << <<"below minimum", CountWords(ce_content), constraints.minWords>> >>
    ELSE <<>>

MaxWordsViolations ==
    IF "maxWords" \in constraints.keys /\ CountWords(ce_content) > constraints.maxWords
    THEN << <<"exceeds maximum", CountWords(ce_content), constraints.maxWords>> >>
    ELSE <<>>

MatchedKeywords ==
    IF "prohibitedKeywords" \in constraints.keys
    THEN SelectSeq(constraints.prohibitedKeywords,
                   LAMBDA k : ContainsKeyword(ce_content, k))
    ELSE <<>>

KeywordViolations ==
    [i \in 1..Len(MatchedKeywords) |-> <<"prohibited keyword", MatchedKeywords[i]>>]

TopicViolations ==
    IF /\ "requiredTopic" \in constraints.keys
       /\ ~TopicIsPresent(ce_content, constraints.requiredTopic)
    THEN << <<"required topic", constraints.requiredTopic>> >>
    ELSE <<>>

FormatViolations ==
    IF /\ "format" \in constraints.keys
       /\ LowerCase(constraints.format) = "json"
       /\ ~LooksLikeJson(ce_content)
    THEN << <<"JSON format">> >>
    ELSE <<>>

\* C25: every rule present is evaluated whatever was violated before, and
\* the result holds one violation per violated rule instance, in the order
\* min-words, max-words, each matched prohibited keyword in list order,
\* required topic, format.
C25_AllViolationsCollected ==
    ce_pc = "returned" =>
        enforcement_result.violations =
            MinWordsViolations \o MaxWordsViolations \o KeywordViolations
            \o TopicViolations \o FormatViolations

\* C25 witness: a content of 10 words was checked against minWords 50 and
\* one prohibited keyword it contains, and exactly two violations came back.
C25_Witness ==
    /\ ce_pc = "returned"
    /\ constraints.keys = {"minWords", "prohibitedKeywords"}
    /\ CountWords(ce_content) = 10
    /\ constraints.minWords = 50
    /\ Len(MatchedKeywords) = 1
    /\ Len(enforcement_result.violations) = 2

\* C26: the result has passed = true exactly when it has no violation; a
\* constraints dictionary with no rule gives passed = true and no violation.
C26_PassedIffNoViolation ==
    ce_pc = "returned" =>
        /\ enforcement_result.passed = (enforcement_result.violations = <<>>)
        /\ constraints.keys = {}
             => enforcement_result = [passed |-> TRUE, violations |-> <<>>]

\* C26 witness: a content that violates the topic rule and the format rule
\* only was checked, and the result has passed = false.
C26_Witness ==
    /\ ce_pc = "returned"
    /\ MinWordsViolations = <<>> /\ MaxWordsViolations = <<>>
    /\ KeywordViolations = <<>>
    /\ TopicViolations # <<>> /\ FormatViolations # <<>>
    /\ ~enforcement_result.passed

----------------------------------------------------------------------------
(* Claims about merge_metrics, checked under SpecMerge.                    *)

\* the sum of a field over the list given, a record without the field
\* counting 0
RECURSIVE FieldSum(_, _)
FieldSum(list, field) ==
    IF list = <<>> THEN 0
    ELSE (IF field \in Head(list).keys THEN Head(list)[field] ELSE 0)
         + FieldSum(Tail(list), field)

SummedFields == {"latency_ms", "input_tokens", "output_tokens", "total_tokens"}

\* C27: on a non-empty list merge_metrics returns latency_ms,
\* input_tokens, output_tokens and total_tokens, each the sum of that field
\* over the list; on an empty list it returns an empty map.
C27_MergeSums ==
    merge_pc = "returned" =>
        IF merge_list = <<>> THEN merged.keys = {}
        ELSE /\ SummedFields \subseteq merged.keys
             /\ \A field \in SummedFields :
                    merged[field] = FieldSum(merge_list, field)

\* C27 witness: two records were merged of which one lacks latency_ms and
\* the other lacks total_tokens, and the sums are not zero.
C27_Witness ==
    /\ merge_pc = "returned"
    /\ Len(merge_list) = 2
    /\ "latency_ms" \notin merge_list[1].keys
    /\ "total_tokens" \notin merge_list[2].keys
    /\ merged.latency_ms > 0
    /\ merged.total_tokens > 0

\* C28: tokens_per_second is in the result exactly when the merged
\* latency_ms and the merged output_tokens are both positive, and then it
\* is merged output_tokens / (merged latency_ms / 1000) rounded to two
\* decimals, whatever the tokens_per_second of the records are.
C28_MergedRate ==
    merge_pc = "returned" =>
        LET latency == FieldSum(merge_list, "latency_ms")
            output == FieldSum(merge_list, "output_tokens")
        IN  /\ "tokens_per_second" \in merged.keys <=> latency > 0 /\ output > 0
            /\ "tokens_per_second" \in merged.keys
                 => LET off == merged.tokens_per_second * latency - output * 100000
                    IN  2 * off <= latency /\ 0 - 2 * off <= latency

\* C28 witness: records with latency 100 and 200 and 50 output tokens each,
\* one of them carrying a tokens_per_second of its own, were merged into
\* latency 300, 100 output tokens and 333.33 tokens per second.
C28_Witness ==
    /\ merge_pc = "returned"
    /\ Len(merge_list) = 2
    /\ merge_list[1].latency_ms = 100 /\ merge_list[2].latency_ms = 200
    /\ merge_list[1].output_tokens = 50 /\ merge_list[2].output_tokens = 50
    /\ "tokens_per_second" \in merge_list[1].keys
    /\ merged.latency_ms = 300
    /\ merged.output_tokens = 100
    /\ merged.tokens_per_second = 33333

----------------------------------------------------------------------------
(* Claims about one MetricsCollector, checked under SpecCollector.         *)

\* C29: on a collector that is fresh or was reset, and on which
\* start_timer was not called since, stop_timer raises nothing, returns 0
\* and leaves the collected metrics as they were: no latency_ms is
\* recorded.
C29_StopWithoutStart ==
    [][StopTimer /\ ~timer_started
         => /\ ~mc_last'.raised
            /\ mc_last'.elapsed = 0
            /\ metrics_data' = metrics_data
            /\ "latency_ms" \notin metrics_data'.keys]_vars

\* C29 witness: time has passed on a collector that was reset, stop_timer
\* was called without start_timer, and get_results is empty.
C29_Witness ==
    /\ mc_last.op = "stop_timer"
    /\ ~timer_started
    /\ now > 0
    /\ mc_last.elapsed = 0
    /\ metrics_data = NoMetrics

\* C30: record_tokens never raises, whatever latency was recorded before
\* (a latency_ms of 0 included), and it sets tokens_per_second only when
\* the recorded latency_ms and the recorded output_tokens are both
\* positive.
C30_RecordTokensNeverRaises ==
    [][RecordTokens
         => /\ ~mc_last'.raised
            /\ \/ /\ "latency_ms" \in metrics_data'.keys
                  /\ metrics_data'.latency_ms > 0
                  /\ metrics_data'.output_tokens > 0
               \/ /\ ("tokens_per_second" \in metrics_data'.keys)
                       = ("tokens_per_second" \in metrics_data.keys)
                  /\ metrics_data'.tokens_per_second = metrics_data.tokens_per_second]_vars

----------------------------------------------------------------------------
(* Claims about the result of validate_result as a whole. *)

\* the declared stage ids in descending priority, equal priorities in
\* declaration order
PriorityOrder ==
    LET n == Len(validation_sequence)
    IN  CHOOSE p \in [1..n -> 1..n] :
            \A i, j \in 1..n :
                i < j =>
                    \/ DeclaredPriority(p[i]) > DeclaredPriority(p[j])
                    \/ /\ DeclaredPriority(p[i]) = DeclaredPriority(p[j])
                       /\ p[i] < p[j]

\* result k failed and its stage aborts on failure
AbortsAt(results, k) ==
    ~results[k].passed /\ DeclaredAbort(results[k].stageId)

\* C31: when validate_result returns, the executed stages are exactly the
\* prefix of the priority-ordered sequence that ends at the first stage
\* that failed with abort-on-failure true (all stages if there is none), and
\* stageResults holds one entry per executed stage, in execution order, with
\* that stage's id.
C31_ExecutedPrefix ==
    vr_pc = "returned" =>
        LET results == vr_returned.stageResults
            n == Len(results)
        IN  /\ n <= Len(validation_sequence)
            /\ executed = [k \in 1..n |-> PriorityOrder[k]]
            /\ \A k \in 1..n : results[k].stageId = executed[k]
            /\ \A k \in 1..(n - 1) : ~AbortsAt(results, k)
            /\ n < Len(validation_sequence) => (n > 0 /\ AbortsAt(results, n))

\* C31 witness: three stages were executed although the first one failed,
\* its abort-on-failure being false.
C31_Witness ==
    /\ vr_pc = "returned"
    /\ Len(validation_sequence) = 3
    /\ Len(vr_returned.stageResults) = 3
    /\ ~vr_returned.stageResults[1].passed
    /\ ~DeclaredAbort(vr_returned.stageResults[1].stageId)
    /\ vr_returned.stageResults[2].passed

\* C32: in every returned result isValid is true exactly when every entry
\* of stageResults has passed = true.
C32_ValidIffAllPassed ==
    vr_pc = "returned" =>
        (vr_returned.isValid
            <=> \A k \in 1..Len(vr_returned.stageResults) :
                    vr_returned.stageResults[k].passed)

\* C32 witness: a stage failed without aborting, a later stage passed, and
\* the result is invalid.
C32_Witness ==
    /\ vr_pc = "returned"
    /\ Len(vr_returned.stageResults) >= 2
    /\ ~vr_returned.stageResults[1].passed
    /\ vr_returned.stageResults[Len(vr_returned.stageResults)].passed
    /\ ~vr_returned.isValid

\* the metrics recorded with the stage results, in execution order
ExecutedStageMetrics(result) ==
    [k \in 1..Len(result.stageResults) |-> result.stageResults[k].metrics]

\* C33: whether the loop completed or was left early, the total metrics of
\* the returned result are merge_metrics of the metrics of exactly the
\* executed stages.
C33_TotalMetricsOfExecuted ==
    vr_pc = "returned" =>
        /\ Len(vr_returned.stageResults) = Len(executed)
        /\ vr_returned.totalMetrics
              = merge_metrics(ExecutedStageMetrics(vr_returned))

\* C33 witness: the first of two stages failed and aborted; the total is
\* the metrics of that stage alone, rate included.
C33_Witness ==
    /\ vr_pc = "returned"
    /\ Len(validation_sequence) = 2
    /\ executed = <<PriorityOrder[1]>>
    /\ AbortsAt(vr_returned.stageResults, 1)
    /\ vr_returned.stageResults[1].metrics.latency_ms = 100
    /\ vr_returned.totalMetrics.latency_ms = 100
    /\ vr_returned.totalMetrics.output_tokens = 50
    /\ "tokens_per_second" \in vr_returned.totalMetrics.keys

\* C33 witness of the completed loop: two stages executed, both with
\* metrics, and the total sums them.
C33_WitnessCompleted ==
    /\ vr_pc = "returned"
    /\ Len(executed) = 2
    /\ vr_returned.stageResults[1].metrics.latency_ms = 100
    /\ vr_returned.stageResults[2].metrics.latency_ms = 200
    /\ vr_returned.totalMetrics.latency_ms = 300

\* C34: every stage result recorded by validate_result has a score within
\* [0, 1] (0..10 in tenths), whatever numeric score the model text holds.
C34_ScoreInUnitInterval ==
    \A k \in 1..Len(validation_result.stageResults) :
        /\ validation_result.stageResults[k].score >= 0
        /\ validation_result.stageResults[k].score <= 10

----------------------------------------------------------------------------
(* Claims about one MetricsCollector across several calls, checked under   *)
(* SpecCollector.                                                          *)

\* C35: stop_timer ends the interval: a stop_timer that follows a
\* stop_timer with no start_timer in between returns 0 and leaves the
\* recorded latency_ms unchanged.
C35_SecondStopIsNoOp ==
    [][StopTimer /\ timer_started /\ mc_last.op = "stop_timer"
         => /\ mc_last'.elapsed = 0
            /\ metrics_data' = metrics_data]_vars

\* C36: whenever get_results contains tokens_per_second, it equals the
\* current output_tokens divided by (the current latency_ms / 1000),
\* rounded to two decimals, and both current values are positive.
C36_RateIsCurrent ==
    (mc_last.op = "get_results" /\ "tokens_per_second" \in mc_last.results.keys)
        => /\ "latency_ms" \in mc_last.results.keys
           /\ "output_tokens" \in mc_last.results.keys
           /\ mc_last.results.latency_ms > 0
           /\ mc_last.results.output_tokens > 0
           /\ mc_last.results.tokens_per_second
                 = TokensPerSecond(mc_last.results.output_tokens,
                                   mc_last.results.latency_ms)

----------------------------------------------------------------------------
(* Claim about model calls made one after another, checked under           *)
(* SpecRunner.                                                             *)

TokenFields == {"input_tokens", "output_tokens", "total_tokens"}

\* C37: the metrics returned for a call contain only values measured for
\* that call: the token counts and the rate are those of the call itself,
\* and a call that failed before it had token counts returns none.
C37_CallMetricsAreOwn ==
    exec_calls > 0 =>
        LET m == exec_result.metrics
        IN  IF exec_result.measured
            THEN /\ TokenFields \subseteq m.keys
                 /\ m.input_tokens = exec_result.input_tokens
                 /\ m.output_tokens = exec_result.output_tokens
                 /\ m.total_tokens
                       = exec_result.input_tokens + exec_result.output_tokens
                 /\ "tokens_per_second" \in m.keys
                       => /\ m.latency_ms > 0
                          /\ m.tokens_per_second
                                = TokensPerSecond(exec_result.output_tokens,
                                                  m.latency_ms)
            ELSE m.keys \cap (TokenFields \cup {"tokens_per_second"}) = {}

----------------------------------------------------------------------------
(* Claim about what validate_result leaves behind, checked under           *)
(* SpecValidateMetrics.                                                    *)

\* the executor's answers of the judged stages, in execution order
Answers(result) ==
    [k \in 1..Len(result.stageResults) |->
        [passed |-> result.stageResults[k].passed,
         score |-> result.stageResults[k].score,
         feedback |-> result.stageResults[k].feedback,
         metrics |-> result.stageResults[k].metrics]]

RECURSIVE FeedbackLines(_)
FeedbackLines(results) ==
    IF results = <<>> THEN <<>>
    ELSE (IF Head(results).feedback # ""
          THEN << <<Head(results).stageId, Head(results).feedback>> >>
          ELSE <<>>)
         \o FeedbackLines(Tail(results))

\* the result as a function of the declared sequence and the answers
ResultOf(answers) ==
    LET results == [k \in 1..Len(answers) |->
                       [stageId |-> PriorityOrder[k],
                        passed |-> answers[k].passed,
                        score |-> answers[k].score,
                        feedback |-> answers[k].feedback,
                        metrics |-> answers[k].metrics]]
    IN  [isValid |-> \A k \in 1..Len(answers) : answers[k].passed,
         finalScore |-> WeightedPassedSum(results),
         stageResults |-> results,
         aggregateFeedback |-> FeedbackLines(results),
         none |-> FALSE,
         metricsKey |-> IF validation_sequence = <<>> THEN "metrics"
                        ELSE "total_validation_metrics",
         totalMetrics |->
             merge_metrics([k \in 1..Len(answers) |-> answers[k].metrics])]

----------------------------------------------------------------------------
(* Claims about the run methods, checked under SpecSuite. *)

IsPrefix(s, t) == Len(s) <= Len(t) /\ \A i \in 1..Len(s) : s[i] = t[i]

BaselineSteps ==
    <<"generated_question", "student_answer", "baseline_evaluation",
      "constraint_enforcement">>

GuidedSteps(review) ==
    <<"teacher_request", "generated_question", "student_answer",
      "multi_stage_validation", "constraint_enforcement", review>>

\* the steps of the cloud run in progress were taken in the fixed order
StepsInOrder ==
    IF IsGuided(cur_run)
    THEN \/ IsPrefix(run_results.steps, GuidedSteps("teacher_review"))
         \/ IsPrefix(run_results.steps, GuidedSteps("teacher_review_skipped"))
    ELSE IsPrefix(run_results.steps, BaselineSteps)

\* C39: within a cloud run (Run 1 baseline, Run 2 guided) the steps are
\* taken in the fixed order, a baseline run without multi-stage validation,
\* and once a step has failed (reported an error or raised) no further step
\* starts: the run is on its way out.
C39_StepsInOrderAfterSuccess ==
    (rs_pc = "in_run" /\ cur_run \in {1, 2}) =>
        /\ StepsInOrder
        /\ run_faults # {} => r_pc = "exit"

\* C40: the result a run method returns has status 'completed' or 'failed',
\* never 'started'; it carries an error exactly when it failed, a
\* final_decision exactly when it completed, and total_metrics either way.
C40_ReturnedResultShape ==
    AtRunExit =>
        /\ run_results.status \in {"completed", "failed"}
        /\ run_results.error <=> run_results.status = "failed"
        /\ run_results.decision.present <=> run_results.status = "completed"
        /\ run_results.has_total_metrics

\* a guided run that failed after its first steps returns
C40_Witness ==
    /\ AtRunExit
    /\ IsGuided(cur_run)
    /\ run_results.status = "failed"
    /\ run_results.error
    /\ Len(run_results.steps) >= 2
    /\ run_results.has_total_metrics

\* a baseline run that completed returns
C40_WitnessCompleted ==
    /\ AtRunExit
    /\ ~IsGuided(cur_run)
    /\ run_results.status = "completed"
    /\ run_results.decision.present
    /\ run_results.has_total_metrics

====
